---- MODULE Spec2Model ----
(***************************************************************************)
(* The CV-to-PDF rendering engine of scripts/generate-cv-pdfs.mjs.         *)
(*                                                                         *)
(* Strings are sequences of one-character strings, so that trim, split,    *)
(* slice and join are modelled by what they do.  Lengths (widths, y, x)    *)
(* are integers in units of 1/10000 pt; a font size is given in tenths of  *)
(* a point (8.5 pt is 85), and a glyph's advance in 1/1000 em, so that the *)
(* width of a glyph at a size is advance * size10 exactly.                 *)
(***************************************************************************)
EXTENDS Integers, Sequences, FiniteSets, Bags, TLC

VARIABLES fn, clock, run, run2, main

vars == <<fn, clock, run, run2, main>>

NoFn == [pc |-> "off"]

NoRun == [pc |-> "off"]

NoMain == [pc |-> "off"]

----------------------------------------------------------------------------
(* Units *)

Pt == 100 * 100

----------------------------------------------------------------------------
(* Strings *)

SP == " "

None == <<"null">>

IsSpace(c) == c = SP

Rep(c, n) == [i \in 1..n |-> c]

safeTextUnguarded(value) == value

safeText(value) == IF value = None THEN <<>> ELSE value

RECURSIVE trimStart(_)
trimStart(s) ==
  IF s # <<>> /\ IsSpace(s[1]) THEN trimStart(Tail(s)) ELSE s

RECURSIVE trimEnd(_)
trimEnd(s) ==
  IF s # <<>> /\ IsSpace(s[Len(s)]) THEN trimEnd(SubSeq(s, 1, Len(s) - 1)) ELSE s

trim(s) == trimEnd(trimStart(s))

slice(s, a, b) == SubSeq(s, a + 1, IF b < Len(s) THEN b ELSE Len(s))

dropLast(s) == IF s = <<>> THEN <<>> ELSE SubSeq(s, 1, Len(s) - 1)

Sorted(S) ==
  [k \in 1..Cardinality(S) |-> CHOOSE i \in S : Cardinality({j \in S : j < i}) = k - 1]

(* the maximal runs of non-whitespace characters of s, in order *)
tokensOf(s) ==
  LET n == Len(s)
      starts == {i \in 1..n : ~IsSpace(s[i]) /\ (i = 1 \/ IsSpace(s[i - 1]))}
      ends == {j \in 1..n : ~IsSpace(s[j]) /\ (j = n \/ IsSpace(s[j + 1]))}
      st == Sorted(starts)
      en == Sorted(ends)
  IN [k \in 1..Len(st) |-> SubSeq(s, st[k], en[k])]

(* s.split(/\s+/): the pieces between maximal runs of whitespace; a leading *)
(* or trailing run leaves an empty piece, and "" splits into one empty piece *)
splitWs(s) ==
  (IF s = <<>> \/ IsSpace(s[1]) THEN <<<<>>>> ELSE <<>>)
    \o tokensOf(s)
    \o (IF s # <<>> /\ IsSpace(s[Len(s)]) THEN <<<<>>>> ELSE <<>>)

filterNonEmpty(parts) == SelectSeq(parts, LAMBDA p : p # <<>>)

(* A loop over items[lo..hi]: each step is handed the evaluated result of the *)
(* step before it                                                            *)
RECURSIVE fold(_, _, _, _, _)
fold(step(_, _), acc, items, lo, hi) ==
  IF lo > hi THEN acc
  ELSE IF lo = hi THEN step(acc, items[lo])
  ELSE LET mid == (lo + hi) \div 2
       IN CHOOSE out \in {fold(step, left, items, mid + 1, hi) :
                            left \in {fold(step, acc, items, lo, mid)}} : TRUE

forEach(step(_, _), acc, items) == fold(step, acc, items, 1, Len(items))

Indices(items) == [i \in 1..Len(items) |-> i]

(* statements 1..n run one after the other *)
inOrder(statement(_, _), acc, n) == fold(statement, acc, [k \in 1..n |-> k], 1, n)

join(parts, sep) ==
  forEach(LAMBDA acc, i : IF i = 1 THEN parts[1] ELSE acc \o sep \o parts[i],
          <<>>, Indices(parts))

----------------------------------------------------------------------------
(* Fonts: the advance of each glyph in 1/1000 em.  Helvetica is the built-in *)
(* fallback face; Fira Code (regular, bold, semibold) is monospaced.         *)

HelveticaAdvance(c) ==
  CASE c = " " -> 278
    [] c = "." -> 278
    [] c = "," -> 278
    [] c = ":" -> 278
    [] c = "/" -> 278
    [] c = "-" -> 333
    [] c = "|" -> 260
    [] c = "i" -> 222
    [] c = "l" -> 222
    [] c = "W" -> 944
    [] c = "m" -> 833
    [] c = "*" -> 350
    [] OTHER -> 556

FiraAdvance(c) == 600

Advance(f, c) == IF f = "Helvetica" THEN HelveticaAdvance(c) ELSE FiraAdvance(c)

(* the sum of the advances of the glyphs of text: the size of the bag that *)
(* holds glyph i Advance(f, text[i]) times                                 *)
advanceSum(f, text) == BagCardinality([i \in 1..Len(text) |-> Advance(f, text[i])])

widthOfTextAtSize(f, text, size10) == advanceSum(f, text) * size10

widthOf(f, text, size10) == widthOfTextAtSize(f, safeText(text), size10)

----------------------------------------------------------------------------
(* wrapText and justifyLine *)

wrapLoopTokenWidthOnly(f, maxWidth, size10, acc, w) ==
  LET test == IF acc.line # <<>> THEN acc.line \o <<SP>> \o w ELSE w
  IN IF widthOf(f, w, size10) > maxWidth /\ acc.line # <<>>
     THEN [lines |-> Append(acc.lines, acc.line), line |-> w]
     ELSE [lines |-> acc.lines, line |-> test]

wrapLoopDroppingLine(f, maxWidth, size10, acc, w) ==
  LET test == IF acc.line # <<>> THEN acc.line \o <<SP>> \o w ELSE w
  IN IF widthOf(f, test, size10) > maxWidth /\ acc.line # <<>>
     THEN [lines |-> acc.lines, line |-> w]
     ELSE [lines |-> acc.lines, line |-> test]

(* the body of the loop of wrapText: acc.lines are the lines closed so far, *)
(* acc.line the line being filled                                           *)
wrapLoop(f, maxWidth, size10, acc, w) ==
  LET test == IF acc.line # <<>> THEN acc.line \o <<SP>> \o w ELSE w
  IN IF widthOf(f, test, size10) > maxWidth /\ acc.line # <<>>
     THEN [lines |-> Append(acc.lines, acc.line), line |-> w]
     ELSE [lines |-> acc.lines, line |-> test]

wrapText(f, text, maxWidth, size10) ==
  LET t == trim(safeText(text))
      out == forEach(LAMBDA acc, w : wrapLoop(f, maxWidth, size10, acc, w),
                     [lines |-> <<>>, line |-> <<>>], filterNonEmpty(splitWs(t)))
  IN IF t = <<>> THEN <<>>
     ELSE IF out.line # <<>> THEN Append(out.lines, out.line)
     ELSE out.lines

(* Math.round(a / b) for b > 0: the nearest integer, halves rounded up *)
MathRound(a, b) == (2 * a + b) \div (2 * b)

Max(a, b) == IF a >= b THEN a ELSE b

sumWidths(f, words, size10) ==
  forEach(LAMBDA acc, w : acc + widthOf(f, w, size10), 0, words)



justifySpacesTruncating(f, words, maxWidth, size10) ==
  LET totalWordWidth == sumWidths(f, words, size10)
      spaces == (maxWidth - totalWordWidth)
                  \div ((Len(words) - 1) * widthOf(f, <<SP>>, size10))
  IN Max(1, spaces)

justifySpaces(f, words, maxWidth, size10) ==
  LET totalWordWidth == sumWidths(f, words, size10)
      spaces == MathRound(maxWidth - totalWordWidth,
                          (Len(words) - 1) * widthOf(f, <<SP>>, size10))
  IN Max(1, spaces)

justifyLine(f, line, maxWidth, size10) ==
  LET words == splitWs(line)
  IN IF Len(words) <= 1 THEN line
     ELSE join(words, Rep(SP, justifySpaces(f, words, maxWidth, size10)))

----------------------------------------------------------------------------
(* Dates: ISO strings YYYY-MM-DD, or None when the field is absent *)

Code(c) ==
  CASE c = "-" -> 45
    [] c = "0" -> 48
    [] c = "1" -> 49
    [] c = "2" -> 50
    [] c = "3" -> 51
    [] c = "4" -> 52
    [] c = "5" -> 53
    [] c = "6" -> 54
    [] c = "7" -> 55
    [] c = "8" -> 56
    [] c = "9" -> 57
    [] OTHER -> 100

(* a < b for JavaScript strings: by code unit, a proper prefix is smaller *)
strLess(a, b) ==
  LET n == IF Len(a) < Len(b) THEN Len(a) ELSE Len(b)
      differ == {i \in 1..n : Code(a[i]) # Code(b[i])}
  IN IF differ = {} THEN Len(a) < Len(b)
     ELSE LET i == CHOOSE k \in differ : \A j \in differ : k <= j
          IN Code(a[i]) < Code(b[i])

strLeq(a, b) == a = b \/ strLess(a, b)

Truthy(value) == value # None /\ value # <<>>

yearRange(startDate, endDate) ==
  LET startYear == slice(safeText(startDate), 0, 4)
      endYear == IF Truthy(endDate) THEN slice(safeText(endDate), 0, 4) ELSE <<>>
  IN IF startYear = <<>> /\ endYear = <<>> THEN <<>>
     ELSE IF endYear = <<>> THEN startYear \o <<" ", "-", " ">> \o startYear
     ELSE startYear \o <<" ", "-", " ">> \o endYear

isInProgressIgnoringEnd(startDate, endDate, today) ==
  LET start == slice(safeText(startDate), 0, 10)
  IN IF start = <<>> THEN FALSE
     ELSE IF strLess(today, start) THEN FALSE
     ELSE TRUE

(* today is new Date().toISOString().slice(0, 10), read at every call *)
isInProgressRange(startDate, endDate, today) ==
  LET start == slice(safeText(startDate), 0, 10)
      end == slice(safeText(endDate), 0, 10)
  IN IF start = <<>> THEN FALSE
     ELSE IF strLess(today, start) THEN FALSE
     ELSE IF end = <<>> THEN TRUE
     ELSE strLeq(today, end)

D2019 == <<"2","0","1","9","-","0","3","-","1","5">>
D2020 == <<"2","0","2","0","-","0","1","-","0","1">>
D2022 == <<"2","0","2","2","-","0","6","-","0","1">>
D2024 == <<"2","0","2","4","-","0","2","-","2","9">>
D2026 == <<"2","0","2","6","-","1","1","-","0","1">>
D2030 == <<"2","0","3","0","-","1","2","-","3","1">>

Dates == {D2019, D2020, D2022, D2024, D2026, D2030}

Today == {D2019, D2022, D2026}

----------------------------------------------------------------------------
(* Small helpers of the script *)

displayUrl(url) ==
  LET u == trim(safeText(url))
      noScheme ==
        IF Len(u) >= 8 /\ SubSeq(u, 1, 8) = <<"h","t","t","p","s",":","/","/">>
        THEN SubSeq(u, 9, Len(u))
        ELSE IF Len(u) >= 7 /\ SubSeq(u, 1, 7) = <<"h","t","t","p",":","/","/">>
        THEN SubSeq(u, 8, Len(u))
        ELSE u
  IN IF u = <<>> THEN <<>>
     ELSE IF noScheme # <<>> /\ noScheme[Len(noScheme)] = "/"
     THEN dropLast(noScheme)
     ELSE noScheme

(* value is a bilingual field [es, en]; a plain string s is [es |-> s, en |-> s] *)
(* and an absent field is [es |-> None, en |-> None]                             *)
i18nText(value, lang) ==
  LET own == IF lang = "en" THEN value.en ELSE IF lang = "es" THEN value.es ELSE None
  IN safeText(IF own # None THEN own
              ELSE IF value.es # None THEN value.es
              ELSE value.en)

(* s.split(sep): the pieces between the occurrences of the character sep *)
splitOn(s, sep) ==
  LET cuts == Sorted({i \in 1..Len(s) : s[i] = sep})
      from(k) == IF k = 1 THEN 1 ELSE cuts[k - 1] + 1
      to(k) == IF k > Len(cuts) THEN Len(s) ELSE cuts[k] - 1
  IN [k \in 1..(Len(cuts) + 1) |-> SubSeq(s, from(k), to(k))]

(* the last non-empty segment of the URL's path (no query or fragment is modelled) *)
getUsername(url) ==
  LET u == trim(safeText(url))
      rest == displayUrl(u)
      parts == filterNonEmpty(Tail(splitOn(rest, "/")))
  IN IF u = <<>> THEN <<>>
     ELSE IF parts = <<>> THEN <<>>
     ELSE parts[Len(parts)]

(* an array field is [isArray |-> TRUE, items |-> <<...>>], anything else is  *)
(* [isArray |-> FALSE]                                                       *)
clampArray(arr) == IF arr.isArray THEN arr.items ELSE <<>>

----------------------------------------------------------------------------
(* Geometry of generateCvPdfBytes *)

pageWidth == 5952800
pageHeight == 8418900
margin == 48 * Pt
sidebarMargin == 24 * Pt
contentWidth == pageWidth - margin * 2
pageBottom == margin
sidebarWidth == 175 * Pt
mainX == margin + sidebarWidth + 16 * Pt
mainWidth == contentWidth - sidebarWidth - 16 * Pt
sidebarFloor == 20 * Pt
sidebarTextWidth == sidebarWidth - sidebarMargin - 8 * Pt
sidebarBulletWidth == sidebarWidth - sidebarMargin - 20 * Pt

BULLET == <<"*", SP>>

----------------------------------------------------------------------------
(* The layout state of one run: r.page is the page being written to, r.y the *)
(* cursor, r.ops everything placed on the pages so far, in order.  History    *)
(* fields: r.used is the distance the cursor has been advanced since the      *)
(* start of the main column, r.ensured the number of calls of ensureSpace,     *)
(* r.header the header text of the last work or     *)
(* education entry, r.at the date on which the last work entry was rendered,  *)
(* r.reads the dates isInProgressRange has read from the clock.               *)

Op(r, kind, region, x, yy, w, h, text, bold) ==
  [pg |-> r.page, kind |-> kind, region |-> region, x |-> x, y |-> yy,
   w |-> w, h |-> h, text |-> text, bold |-> bold]

place(r, op) == [r EXCEPT !.ops = Append(@, op)]

adv(r, h) == [r EXCEPT !.y = @ - h, !.used = @ + h]

drawSidebarBgSkipped(r) == r

drawSidebarBg(r) ==
  place(r, Op(r, "bg", "sidebar", 0, 0, sidebarWidth, pageHeight, <<>>, FALSE))

addPage(r) == [r EXCEPT !.npages = @ + 1, !.page = r.npages + 1]

newPageOnSamePage(r) ==
  drawSidebarBg([r EXCEPT !.y = pageHeight - margin])

newPage(r) ==
  drawSidebarBg([addPage(r) EXCEPT !.y = pageHeight - margin])

ensureSpaceToPageEdge(r, minSpace, isSidebar) ==
  IF r.y - minSpace < 0 THEN newPage(r) ELSE r

ensureSpaceAtFloor(r, minSpace, isSidebar) ==
  LET bottom == IF isSidebar THEN sidebarFloor ELSE pageBottom
  IN IF r.y - minSpace <= bottom THEN newPage(r) ELSE r

(* lines 228-233; r.ensured counts the calls *)
ensureSpace(r, minSpace, isSidebar) ==
  LET bottom == IF isSidebar THEN sidebarFloor ELSE pageBottom
      called == [r EXCEPT !.ensured = @ + 1]
  IN IF r.y - minSpace < bottom THEN newPage(called) ELSE called

usedFont(r, bold) == IF bold THEN r.fontBold ELSE r.font

drawText(r, region, text, x, size10, bold) ==
  place(r, Op(r, "text", region, x, r.y,
              widthOfTextAtSize(usedFont(r, bold), text, size10), size10, text, bold))

drawImage(r, x, size) ==
  place(r, Op(r, "image", "sidebar", x, r.y - size, size, size, <<>>, FALSE))

drawSectionDivider(r, x1, x2, yPos) ==
  place(r, Op(r, "line", "main", x1, yPos, x2 - x1, 2 * Pt, <<>>, FALSE))

addUrlLinkAnnotationToNewList(r, x, yy, width, height, url) ==
  LET u == trim(safeText(url))
      others == SelectSeq(r.ops, LAMBDA op : ~(op.kind = "annot" /\ op.pg = r.page))
  IN IF u = <<>> THEN r
     ELSE place([r EXCEPT !.ops = others],
                Op(r, "annot", "main", x, yy, width, height, u, FALSE))

(* lines 280-318: targetPage is always the current page; the annotation is *)
(* pushed onto the page's list, which is created when the page has none    *)
addUrlLinkAnnotation(r, x, yy, width, height, url) ==
  LET u == trim(safeText(url))
  IN IF u = <<>> THEN r
     ELSE place(r, Op(r, "annot", "main", x, yy, width, height, u, FALSE))

drawSidebarText(r, text, size10, bold) ==
  LET t == safeText(text)
  IN IF t = <<>> THEN r
     ELSE LET r1 == ensureSpace(r, size10 * 1400, TRUE)
          IN adv(drawText(r1, "sidebar", t, sidebarMargin, size10, bold), size10 * 1400)

drawLinesAt(r, region, lines, x, size10, bold, lineHeight, isSidebar) ==
  forEach(LAMBDA rr, line :
            adv(drawText(ensureSpace(rr, lineHeight, isSidebar), region, line, x,
                         size10, bold),
                lineHeight),
          r, lines)

justifyAllLines(f, lines, maxWidth, size10, justify) ==
  [i \in 1..Len(lines) |->
     IF justify THEN justifyLine(f, lines[i], maxWidth, size10) ELSE lines[i]]

(* lines 248 and 487: the line drawn for each wrapped line *)
justifyAll(f, lines, maxWidth, size10, justify) ==
  [i \in 1..Len(lines) |->
     IF justify /\ i < Len(lines)
     THEN justifyLine(f, lines[i], maxWidth, size10)
     ELSE lines[i]]

(* lines 244-253 *)
drawSidebarWrapped(r, text, size10, lineHeight, justify) ==
  LET lines == wrapText(r.font, text, sidebarTextWidth, size10)
  IN drawLinesAt(r, "sidebar", justifyAll(r.font, lines, sidebarTextWidth, size10, justify),
                 sidebarMargin, size10, FALSE, lineHeight, TRUE)

drawSidebarBullet(r, text, size10) ==
  LET bulletWidth == widthOfTextAtSize(r.font, BULLET, size10)
      bodyMax == Max(30 * Pt, sidebarBulletWidth - bulletWidth)
      lines == wrapText(r.font, text, bodyMax, size10)
  IN IF lines = <<>> THEN r
     ELSE LET r1 == ensureSpace(r, 13 * Pt, TRUE)
              r2 == adv(drawText(r1, "sidebar", BULLET \o lines[1], sidebarMargin,
                                 size10, FALSE), 13 * Pt)
          IN drawLinesAt(r2, "sidebar", Tail(lines), sidebarMargin + bulletWidth,
                         size10, FALSE, 13 * Pt, TRUE)

drawSectionHeaderUnguarded(r, title) ==
  LET size10 == 140
      titleToDivider == 1 * Pt
      dividerToContent == 14 * Pt
      dividerUnderBaseline == size10 * 350
      titleY == r.y
      r2 == drawText(r, "main", safeText(title), mainX, size10, TRUE)
      dividerY == titleY - dividerUnderBaseline - titleToDivider
      r3 == drawSectionDivider(r2, mainX, mainX + mainWidth, dividerY)
  IN adv(r3, r3.y - (dividerY - dividerToContent))

drawSectionHeader(r, title) ==
  LET size10 == 140
      titleToDivider == 1 * Pt
      dividerToContent == 14 * Pt
      dividerThickness == 2 * Pt
      dividerUnderBaseline == size10 * 350
      needed == dividerUnderBaseline + titleToDivider + dividerThickness + dividerToContent
      r1 == ensureSpace(r, needed, FALSE)
      titleY == r1.y
      r2 == drawText(r1, "main", safeText(title), mainX, size10, TRUE)
      dividerY == titleY - dividerUnderBaseline - titleToDivider
      r3 == drawSectionDivider(r2, mainX, mainX + mainWidth, dividerY)
  IN adv(r3, r3.y - (dividerY - dividerToContent))

drawMainText(r, text, size10, bold) ==
  LET t == safeText(text)
  IN IF t = <<>> THEN r
     ELSE LET r1 == ensureSpace(r, size10 * 1400, FALSE)
          IN adv(drawText(r1, "main", t, mainX, size10, bold), size10 * 1400)

(* wrapText measures with the regular font, whatever font draws the line *)
drawMainWrapped(r, text, size10, lineHeight, justify, bold) ==
  LET lines == wrapText(r.font, text, mainWidth, size10)
  IN drawLinesAt(r, "main", justifyAll(r.font, lines, mainWidth, size10, justify),
                 mainX, size10, bold, lineHeight, FALSE)

drawCenteredLines(r, lines, size10, lineHeight, bold) ==
  forEach(LAMBDA rr, line :
            LET w == widthOfTextAtSize(usedFont(rr, bold), line, size10)
                x == mainX + Max(0, (mainWidth - w) \div 2)
            IN adv(drawText(ensureSpace(rr, lineHeight, FALSE), "main", line, x,
                            size10, bold),
                   lineHeight),
          r, lines)

drawMainWrappedCentered(r, text, size10, lineHeight, bold) ==
  drawCenteredLines(r, wrapText(r.font, text, mainWidth, size10), size10, lineHeight, bold)

drawMainBullet(r, text, size10, lineHeight) ==
  LET t == trim(safeText(text))
      bulletWidth == widthOfTextAtSize(r.font, BULLET, size10)
      bodyMax == Max(40 * Pt, mainWidth - bulletWidth)
      lines == wrapText(r.font, t, bodyMax, size10)
  IN IF t = <<>> \/ lines = <<>> THEN r
     ELSE LET r1 == ensureSpace(r, lineHeight, FALSE)
              r2 == adv(drawText(r1, "main", BULLET \o lines[1], mainX, size10, FALSE),
                        lineHeight)
          IN drawLinesAt(r2, "main", Tail(lines), mainX + bulletWidth, size10, FALSE,
                         lineHeight, FALSE)

drawLinkLines(r, lines, url, size10, lineHeight, bold) ==
  forEach(LAMBDA rr, line :
            LET r1 == ensureSpace(rr, lineHeight, FALSE)
                lineY == r1.y
                r2 == drawText(r1, "main", line, mainX, size10, bold)
                w == widthOfTextAtSize(usedFont(rr, bold), line, size10)
                r3 == addUrlLinkAnnotation(r2, mainX, lineY - 2 * Pt, w,
                                           size10 * 1000 + 4 * Pt, url)
            IN adv(r3, lineHeight),
          r, lines)

drawMainWrappedLink(r, text, url, size10, lineHeight, bold) ==
  drawLinkLines(r, wrapText(r.font, text, mainWidth, size10), url, size10, lineHeight, bold)

drawUrlLinesOnCachedPage(r, urlLines, labelText, u, size10, lineHeight) ==
  forEach(LAMBDA rr, i :
            LET labelWidth == widthOfTextAtSize(rr.font, labelText, size10)
                r1 == ensureSpace(rr, lineHeight, FALSE)
                lineY == r1.y
                x1 == mainX + labelWidth
                r2 == IF i = 1
                      THEN drawText(r1, "main", labelText, mainX, size10, FALSE)
                      ELSE r1
                r3 == drawText(r2, "main", urlLines[i], x1, size10, FALSE)
                w == widthOfTextAtSize(rr.font, urlLines[i], size10)
                r4 == addUrlLinkAnnotation([r3 EXCEPT !.page = r.page], x1,
                                           lineY - 2 * Pt, w, size10 * 1000 + 4 * Pt, u)
            IN adv([r4 EXCEPT !.page = r3.page], lineHeight),
          r, Indices(urlLines))

drawUrlLines(r, urlLines, labelText, u, size10, lineHeight) ==
  forEach(LAMBDA rr, i :
            LET labelWidth == widthOfTextAtSize(rr.font, labelText, size10)
                r1 == ensureSpace(rr, lineHeight, FALSE)
                lineY == r1.y
                x1 == mainX + labelWidth
                r2 == IF i = 1
                      THEN drawText(r1, "main", labelText, mainX, size10, FALSE)
                      ELSE r1
                r3 == drawText(r2, "main", urlLines[i], x1, size10, FALSE)
                w == widthOfTextAtSize(rr.font, urlLines[i], size10)
                r4 == addUrlLinkAnnotation(r3, x1, lineY - 2 * Pt, w,
                                           size10 * 1000 + 4 * Pt, u)
            IN adv(r4, lineHeight),
          r, Indices(urlLines))

drawLabeledUrl(r, label, url) ==
  LET size10 == 90
      lineHeight == 12 * Pt
      u == trim(safeText(url))
      labelText == trim(safeText(label)) \o <<SP>>
      labelWidth == widthOfTextAtSize(r.font, labelText, size10)
      available == Max(40 * Pt, mainWidth - labelWidth)
      urlLines == wrapText(r.font, displayUrl(u), available, size10)
  IN IF u = <<>> THEN r
     ELSE drawUrlLines(r, urlLines, labelText, u, size10, lineHeight)

----------------------------------------------------------------------------
(* The sections of generateCvPdfBytes, in the order the function runs them.  *)
(* r.cv is the CV record, r.lang the language, r.env what the run finds on    *)
(* disk: the font files present, whether the avatar and the QR image embed.   *)

T(r, en, es) == IF r.lang = "en" THEN en ELSE es

basics(r) == r.cv.basics

(* the titles of the sections, lines 377-710: the English text when lang is *)
(* 'en', the Spanish text otherwise                                        *)
sectionTitle(r, name) ==
  CASE name = "summaryTitle" ->
         T(r, <<"A", "b", "o", "u", "t">>,
              <<"S", "o", "b", "r", "e", " ", "m", "í">>)
    [] name = "rolesTitle" ->
         T(r, <<"R", "o", "l", "e", "s">>,
              <<"R", "o", "l", "e", "s">>)
    [] name = "qrTitle" ->
         T(r, <<"P", "o", "r", "t", "f", "o", "l", "i", "o">>,
              <<"P", "o", "r", "t", "a", "f", "o", "l", "i", "o">>)
    [] name = "contactTitle" ->
         T(r, <<"C", "o", "n", "t", "a", "c", "t">>,
              <<"C", "o", "n", "t", "a", "c", "t", "o">>)
    [] name = "expTitle" ->
         T(r, <<"W", "o", "r", "k", " ", "E", "x", "p", "e", "r", "i", "e", "n", "c", "e">>,
              <<"E", "x", "p", "e", "r", "i", "e", "n", "c", "i", "a", " ", "L", "a", "b", "o", "r", "a", "l">>)
    [] name = "eduTitle" ->
         T(r, <<"E", "d", "u", "c", "a", "t", "i", "o", "n">>,
              <<"F", "o", "r", "m", "a", "c", "i", "ó", "n", " ", "A", "c", "a", "d", "é", "m", "i", "c", "a">>)
    [] name = "trainTitle" ->
         T(r, <<"T", "r", "a", "i", "n", "i", "n", "g", " ", "&", " ", "C", "o", "u", "r", "s", "e", "s">>,
              <<"C", "a", "p", "a", "c", "i", "t", "a", "c", "i", "o", "n", "e", "s">>)
    [] name = "hardSkillsTitle" ->
         T(r, <<"H", "a", "r", "d", " ", "S", "k", "i", "l", "l", "s">>,
              <<"H", "a", "r", "d", " ", "S", "k", "i", "l", "l", "s">>)
    [] name = "softSkillsTitle" ->
         T(r, <<"S", "o", "f", "t", " ", "S", "k", "i", "l", "l", "s">>,
              <<"S", "o", "f", "t", " ", "S", "k", "i", "l", "l", "s">>)
    [] name = "langsTitle" ->
         T(r, <<"L", "a", "n", "g", "u", "a", "g", "e", "s">>,
              <<"I", "d", "i", "o", "m", "a", "s">>)
    [] name = "pubTitle" ->
         T(r, <<"P", "u", "b", "l", "i", "c", "a", "t", "i", "o", "n", "s">>,
              <<"P", "u", "b", "l", "i", "c", "a", "c", "i", "o", "n", "e", "s">>)


(* lines 122-185: the document, the fonts, the first page and its background *)
LoadFonts(r) ==
  LET font == IF "Regular" \in r.env.fontFiles THEN "Fira" ELSE "Helvetica"
      fontBold == IF "Bold" \in r.env.fontFiles THEN "FiraBold"
                  ELSE IF "SemiBold" \in r.env.fontFiles THEN "FiraSemiBold"
                  ELSE font
      r1 == [r EXCEPT !.font = font, !.fontBold = fontBold,
                      !.y = pageHeight - margin]
  IN [drawSidebarBg(addPage(r1)) EXCEPT !.pc = "avatar"]

(* What a call gives: a value it returns or an exception it throws.  The     *)
(* handle of an embedded image is Image.                                    *)
Returns(value) == [kind |-> "return", value |-> value]

Throws == [kind |-> "throw", value |-> None]

Image == <<"image">>

(* try { body } catch { return fallback } *)
tryCatch(body, fallback) == IF body.kind = "throw" THEN Returns(fallback) ELSE body

toLowerCase(s) ==
  [i \in 1..Len(s) |->
     CASE s[i] = "P" -> "p" [] s[i] = "N" -> "n" [] s[i] = "G" -> "g"
       [] s[i] = "J" -> "j" [] s[i] = "E" -> "e" [] s[i] = "W" -> "w"
       [] s[i] = "B" -> "b" [] OTHER -> s[i]]

(* path.extname: from the last "." of the last segment of the path to its end; *)
(* empty when that segment has no "." or only begins with one                  *)
extname(p) ==
  LET slashes == {i \in 1..Len(p) : p[i] = "/"}
      from == IF slashes = {} THEN 1
              ELSE 1 + CHOOSE i \in slashes : \A j \in slashes : j <= i
      dots == {i \in from..Len(p) : p[i] = "."}
      dot == CHOOSE i \in dots : \A j \in dots : j <= i
  IN IF dots = {} THEN <<>>
     ELSE IF dot = from THEN <<>>
     ELSE SubSeq(p, dot, Len(p))

PNG == <<".", "p", "n", "g">>
JPG == <<".", "j", "p", "g">>
JPEG == <<".", "j", "p", "e", "g">>
WEBP == <<".", "w", "e", "b", "p">>

(* fs.readFile throws when the file is missing; embedPng and embedJpg throw on *)
(* bytes they cannot decode; import('sharp') or the re-encode to PNG may fail  *)
readFile(env) == IF env.image = "missing" THEN Throws ELSE Returns(env.image)

embedBytes(bytes) == IF bytes = "valid" THEN Returns(Image) ELSE Throws

sharpToPng(env, bytes) == IF env.sharp THEN Returns(bytes) ELSE Throws

embedImageBody(env, imgPath) ==
  LET imgBytes == readFile(env)
      ext == toLowerCase(extname(imgPath))
      png == sharpToPng(env, imgBytes.value)
  IN IF imgBytes.kind = "throw" THEN Throws
     ELSE IF ext = PNG \/ ext = JPG \/ ext = JPEG THEN embedBytes(imgBytes.value)
     ELSE IF ext = WEBP
     THEN tryCatch(IF png.kind = "throw" THEN Throws ELSE embedBytes(png.value), None)
     ELSE Returns(None)

embedImageUncaught(env, imgPath) == embedImageBody(env, imgPath)

(* lines 98-119 *)
embedImage(env, imgPath) == tryCatch(embedImageBody(env, imgPath), None)

(* line 360: path.join(repoRoot, 'public', imgRel.replace(/^\//, '')) *)
imgPathOf(imgRel) ==
  <<"p", "u", "b", "l", "i", "c", "/">>
    \o (IF imgRel # <<>> /\ imgRel[1] = "/" THEN Tail(imgRel) ELSE imgRel)

(* lines 355-374: the section is inside try { } catch { } *)
Avatar(r) ==
  LET avatarSize == 85 * Pt
      imgRel == safeText(basics(r).image)
      avatar == tryCatch(embedImage(r.env, imgPathOf(imgRel)), None).value
      avatarX == (sidebarWidth - avatarSize) \div 2
      r1 == IF imgRel # <<>> /\ avatar # None
            THEN adv(drawImage(ensureSpace(r, avatarSize + 25 * Pt, TRUE),
                               avatarX, avatarSize),
                     avatarSize + 18 * Pt)
            ELSE r
  IN [r1 EXCEPT !.pc = "about"]

ELLIPSIS == <<".", ".", ".">>

RECURSIVE shortenForEllipsis(_, _, _, _)
shortenForEllipsis(f, last, size10, maxWidth) ==
  IF last # <<>> /\ widthOf(f, last \o ELLIPSIS, size10) > maxWidth
  THEN shortenForEllipsis(f, trimEnd(dropLast(last)), size10, maxWidth)
  ELSE last

(* the number of iterations of the loop of lines 395-397 *)
RECURSIVE ellipsisIterations(_, _, _, _)
ellipsisIterations(f, last, size10, maxWidth) ==
  IF last # <<>> /\ widthOf(f, last \o ELLIPSIS, size10) > maxWidth
  THEN 1 + ellipsisIterations(f, trimEnd(dropLast(last)), size10, maxWidth)
  ELSE 0

appendEllipsisUncut(f, last, size10, maxWidth) == trimEnd(last) \o ELLIPSIS

appendEllipsis(f, last, size10, maxWidth) ==
  trimEnd(shortenForEllipsis(f, last, size10, maxWidth)) \o ELLIPSIS

drawSummaryLines(r, shown, size10, maxWidth, lineHeight) ==
  forEach(LAMBDA rr, l :
            LET line == safeText(l)
                w == widthOf(rr.font, line, size10)
                x == sidebarMargin + Max(0, (maxWidth - w) \div 2)
            IN adv(drawText(ensureSpace(rr, lineHeight, TRUE), "sidebar", line, x,
                            size10, FALSE),
                   lineHeight),
          r, shown)

maxLines == 12

shownSummary(f, fullSummary, size10, maxWidth) ==
  LET lines == wrapText(f, fullSummary, maxWidth, size10)
      needsEllipsis == Len(lines) > maxLines
      shown == SubSeq(lines, 1, IF Len(lines) < maxLines THEN Len(lines) ELSE maxLines)
  IN IF needsEllipsis /\ Len(shown) > 0
     THEN [shown EXCEPT ![Len(shown)] = appendEllipsis(f, shown[Len(shown)], size10, maxWidth)]
     ELSE shown

(* lines 376-410 *)
About(r) ==
  LET r1 == adv(drawSidebarText(r, sectionTitle(r, "summaryTitle"), 120, TRUE), 5 * Pt)
      fullSummary == i18nText(basics(r).summary, r.lang)
      size10 == 85
      maxWidth == sidebarTextWidth
      r2 == IF fullSummary # <<>>
            THEN drawSummaryLines(r1, shownSummary(r.font, fullSummary, size10, maxWidth),
                                  size10, maxWidth, 12 * Pt)
            ELSE r1
  IN [adv(r2, 8 * Pt) EXCEPT !.pc = "roles"]

drawRoles(r, ws) ==
  forEach(LAMBDA rr, w :
            LET role == i18nText(w.position, rr.lang)
                company == safeText(w.name)
                fullText == role \o (IF company # <<>> THEN <<SP>> \o company ELSE <<>>)
            IN IF role # <<>> THEN drawSidebarBullet(rr, fullText, 90) ELSE rr,
          r, ws)

(* lines 412-424 *)
Roles(r) ==
  LET r1 == adv(drawSidebarText(r, sectionTitle(r, "rolesTitle"), 120, TRUE), 5 * Pt)
      work == clampArray(r.cv.work)
      r2 == drawRoles(r1, SubSeq(work, 1, IF Len(work) < 3 THEN Len(work) ELSE 3))
  IN [adv(r2, 8 * Pt) EXCEPT !.pc = "qr"]

(* lines 426-441 *)
QrCode(r) ==
  LET r1 == adv(drawSidebarText(r, sectionTitle(r, "qrTitle"), 120, TRUE), 5 * Pt)
      qrSize == 80 * Pt
      qrX == (sidebarWidth - qrSize) \div 2
      r2 == IF r.env.qrOk
            THEN adv(drawImage(ensureSpace(r1, qrSize + 35 * Pt, TRUE), qrX, qrSize),
                     qrSize + 10 * Pt)
            ELSE r1
  IN [adv(r2, 8 * Pt) EXCEPT !.pc = "contact"]

prefixBullet(lines) == [i \in 1..Len(lines) |-> BULLET \o lines[i]]

drawProfiles(r, ps) ==
  forEach(LAMBDA rr, p :
            LET network == safeText(p.network)
                username == getUsername(p.url)
            IN IF network # <<>> /\ username # <<>>
               THEN drawSidebarBullet(rr, network \o <<":", SP>> \o username, 90)
               ELSE rr,
          r, ps)

(* lines 443-468 *)
Contact(r) ==
  LET statement(rr, k) ==
        CASE k = 1 -> adv(drawSidebarText(rr, sectionTitle(r, "contactTitle"), 120, TRUE), 5 * Pt)
          [] k = 2 -> IF Truthy(basics(r).email)
                      THEN drawLinesAt(rr, "sidebar",
                                       prefixBullet(wrapText(r.font, safeText(basics(r).email),
                                                             sidebarBulletWidth, 90)),
                                       sidebarMargin, 90, FALSE, 13 * Pt, TRUE)
                      ELSE rr
          [] k = 3 -> IF Truthy(basics(r).phone)
                      THEN drawLinesAt(rr, "sidebar", <<BULLET \o safeText(basics(r).phone)>>,
                                       sidebarMargin, 90, FALSE, 13 * Pt, TRUE)
                      ELSE rr
          [] k = 4 -> drawProfiles(rr, clampArray(basics(r).profiles))
  IN [inOrder(statement, r, 4) EXCEPT !.pc = "main"]

MainHeaderFromFirstPage(r) ==
  LET r0 == [r EXCEPT !.y = pageHeight - margin, !.used = 0, !.mainStartPage = 1, !.page = 1]
      r1 == adv(drawMainText(r0, safeText(basics(r).name), 220, TRUE), 4 * Pt)
      label == i18nText(basics(r).label, r.lang)
      r2 == adv(drawMainWrappedCentered(r1, label, 110, 13 * Pt, FALSE), 8 * Pt)
  IN [r2 EXCEPT !.pc = "workHeader"]

(* lines 470-585: the cursor goes back to the top margin; the page is not changed *)
MainHeader(r) ==
  LET r0 == [r EXCEPT !.y = pageHeight - margin, !.used = 0, !.mainStartPage = r.page]
      r1 == adv(drawMainText(r0, safeText(basics(r).name), 220, TRUE), 4 * Pt)
      label == i18nText(basics(r).label, r.lang)
      r2 == adv(drawMainWrappedCentered(r1, label, 110, 13 * Pt, FALSE), 8 * Pt)
  IN [r2 EXCEPT !.pc = "workHeader"]

(* lines 587-589 *)
WorkHeader(r) ==
  [drawSectionHeader(r, sectionTitle(r, "expTitle"))
     EXCEPT !.pc = "work", !.i = 1]

joinParts(parts) == join(filterNonEmpty(parts), <<SP, "|", SP>>)

inProgressLabel(r) == T(r, <<"I", "n", " ", "p", "r", "o", "g", "r", "e", "s", "s">>, <<"E", "n", " ", "p", "r", "o", "c", "e", "s", "o">>)

workHeaderTextInProgress(r, w, today) ==
  joinParts(<<safeText(w.name),
              IF isInProgressRange(w.startDate, w.endDate, today)
              THEN inProgressLabel(r)
              ELSE yearRange(w.startDate, w.endDate)>>)

workHeaderText(r, w, today) ==
  joinParts(<<safeText(w.name), yearRange(w.startDate, w.endDate)>>)

(* lines 591-609, one entry *)
WorkEntry(r, today) ==
  LET w == clampArray(r.cv.work)[r.i]
      position == i18nText(w.position, r.lang)
      header == workHeaderText(r, w, today)
      summaryW == i18nText(w.summary, r.lang)
      statement(rr, k) ==
        CASE k = 1 -> adv(drawText(ensureSpace(rr, 30 * Pt, FALSE), "main", header, mainX,
                                   110, TRUE),
                          14 * Pt)
          [] k = 2 -> adv(drawText(ensureSpace(rr, 14 * Pt, FALSE), "main", position, mainX,
                                   90, FALSE),
                          12 * Pt)
          [] k = 3 -> IF summaryW # <<>>
                      THEN drawMainWrapped(rr, summaryW, 86, 12 * Pt, TRUE, FALSE)
                      ELSE rr
          [] k = 4 -> adv(rr, 10 * Pt)
  IN [inOrder(statement, r, 4) EXCEPT !.i = @ + 1, !.header = header, !.at = today]

(* lines 610-614 *)
EducationHeader(r) ==
  [drawSectionHeader(adv(r, 6 * Pt), sectionTitle(r, "eduTitle"))
     EXCEPT !.pc = "education", !.i = 1]

educationHeaderText(r, e, today) ==
  LET inst == safeText(e.institution)
      years == yearRange(e.startDate, e.endDate)
      inProgress == isInProgressRange(e.startDate, e.endDate, today)
  IN joinParts(<<inst, IF inProgress THEN inProgressLabel(r) ELSE years>>)

(* lines 616-637, one entry; isInProgressRange reads the clock *)
EducationEntry(r, today) ==
  LET e == clampArray(r.cv.education)[r.i]
      area == i18nText(e.area, r.lang)
      header == educationHeaderText(r, e, today)
      statement(rr, k) ==
        CASE k = 1 -> ensureSpace(rr, 34 * Pt, FALSE)
          [] k = 2 -> drawMainWrapped(rr, header, 110, 14 * Pt, FALSE, TRUE)
          [] k = 3 -> adv(rr, 2 * Pt)
          [] k = 4 -> IF area # <<>>
                      THEN drawMainWrapped(rr, area, 90, 12 * Pt, FALSE, FALSE)
                      ELSE rr
          [] k = 5 -> adv(rr, 8 * Pt)
  IN [inOrder(statement, r, 5) EXCEPT !.i = @ + 1, !.header = header,
                                      !.reads = Append(@, today)]

shownProjects(r) ==
  LET ps == clampArray(r.cv.projects)
  IN SubSeq(ps, 1, IF Len(ps) < 4 THEN Len(ps) ELSE 4)

(* lines 638-643 *)
ProjectsHeader(r) ==
  LET r1 == adv(r, 6 * Pt)
  IN IF Len(clampArray(r.cv.projects)) > 0
     THEN [drawSectionHeader(r1, sectionTitle(r, "trainTitle"))
             EXCEPT !.pc = "projects", !.i = 1]
     ELSE [r1 EXCEPT !.pc = "hardSkills"]

(* lines 645-667, one entry *)
ProjectEntry(r) ==
  LET p == shownProjects(r)[r.i]
      title == safeText(p.name)
      desc == i18nText(p.description, r.lang)
      projectUrl == safeText(p.url)
      projectGithub == safeText(p.github)
      statement(rr, k) ==
        CASE k = 1 -> adv(drawText(ensureSpace(rr, 30 * Pt, FALSE), "main", title, mainX,
                                   110, TRUE),
                          14 * Pt)
          [] k = 2 -> IF desc # <<>>
                      THEN drawMainWrapped(rr, desc, 86, 12 * Pt, TRUE, FALSE)
                      ELSE rr
          [] k = 3 -> IF projectUrl # <<>>
                      THEN drawLabeledUrl(rr, <<"D", "e", "p", "l", "o", "y">>, projectUrl)
                      ELSE rr
          [] k = 4 -> IF projectGithub # <<>> /\ projectGithub # projectUrl
                      THEN drawLabeledUrl(rr, <<"C", "o", "d", "i", "g", "o">>, projectGithub)
                      ELSE rr
          [] k = 5 -> adv(rr, 10 * Pt)
  IN [(IF title # <<>> THEN inOrder(statement, r, 5) ELSE r)
        EXCEPT !.i = @ + 1]

skillNames(skills) ==
  filterNonEmpty([i \in 1..Len(skills) |-> safeText(skills[i].name)])

(* lines 668-681 *)
HardSkills(r) ==
  LET r0 == IF r.pc = "projects" THEN adv(r, 6 * Pt) ELSE r
      r1 == drawSectionHeader(r0, sectionTitle(r, "hardSkillsTitle"))
      skills == clampArray(r.cv.skills)
      r2 == IF Len(skills) > 0
            THEN drawMainWrapped(r1, join(skillNames(skills), <<",", SP>>), 100, 13 * Pt,
                                 FALSE, FALSE)
            ELSE r1
  IN [adv(r2, 6 * Pt) EXCEPT !.pc = "softSkills"]

drawBullets(r, items) ==
  forEach(LAMBDA rr, item : drawMainBullet(rr, item, 100, 13 * Pt), r, items)

(* lines 683-690 *)
SoftSkills(r) ==
  LET r1 == drawSectionHeader(r, sectionTitle(r, "softSkillsTitle"))
      r2 == drawBullets(r1, clampArray(r.cv.softSkills))
  IN [adv(r2, 6 * Pt) EXCEPT !.pc = "languages"]

translateCommonLanguageTerms(value, lang) ==
  LET v == trim(safeText(value))
      esMap == CASE v = <<"S", "p", "a", "n", "i", "s", "h">> -> <<"E", "s", "p", "a", "ñ", "o", "l">>
                 [] v = <<"E", "n", "g", "l", "i", "s", "h">> -> <<"I", "n", "g", "l", "é", "s">>
                 [] v = <<"N", "a", "t", "i", "v", "e", " ", "s", "p", "e", "a", "k", "e", "r">> -> <<"N", "a", "t", "i", "v", "o">>
                 [] v = <<"N", "a", "t", "i", "v", "e">> -> <<"N", "a", "t", "i", "v", "o">>
                 [] v = <<"A", "d", "v", "a", "n", "c", "e", "d">> -> <<"A", "v", "a", "n", "z", "a", "d", "o">>
                 [] OTHER -> v
      enMap == CASE v = <<"E", "s", "p", "a", "ñ", "o", "l">> -> <<"S", "p", "a", "n", "i", "s", "h">>
                 [] v = <<"I", "n", "g", "l", "é", "s">> -> <<"E", "n", "g", "l", "i", "s", "h">>
                 [] v = <<"N", "a", "t", "i", "v", "o">> -> <<"N", "a", "t", "i", "v", "e", " ", "s", "p", "e", "a", "k", "e", "r">>
                 [] v = <<"A", "v", "a", "n", "z", "a", "d", "o">> -> <<"A", "d", "v", "a", "n", "c", "e", "d">>
                 [] OTHER -> v
  IN IF v = <<>> THEN <<>>
     ELSE IF lang = "es" THEN esMap
     ELSE IF lang = "en" THEN enMap
     ELSE v

drawLanguages(r, ls) ==
  forEach(LAMBDA rr, l :
            LET language == translateCommonLanguageTerms(safeText(l.language), rr.lang)
                fluency == translateCommonLanguageTerms(safeText(l.fluency), rr.lang)
            IN IF language # <<>>
               THEN adv(drawText(ensureSpace(rr, 11 * Pt, FALSE), "main",
                                 language \o <<SP, "-", SP>> \o fluency, mainX, 100, FALSE),
                        11 * Pt)
               ELSE rr,
          r, ls)

(* lines 692-705 *)
Languages(r) ==
  LET r1 == drawSectionHeader(r, sectionTitle(r, "langsTitle"))
      r2 == drawLanguages(r1, clampArray(r.cv.languages))
  IN [adv(r2, 12 * Pt) EXCEPT !.pc = "publications"]

(* lines 713-728, one publication *)
drawPublication(r, pub) ==
  LET title == i18nText(pub.name, r.lang)
      publisher == safeText(pub.publisher)
      date == slice(safeText(pub.releaseDate), 0, 7)
      pubUrl == safeText(pub.url)
      statement(rr, k) ==
        CASE k = 1 -> ensureSpace(rr, 26 * Pt, FALSE)
          [] k = 2 -> drawMainWrappedLink(rr, joinParts(<<title, date>>), pubUrl, 110,
                                          14 * Pt, TRUE)
          [] k = 3 -> adv(rr, 6 * Pt)
          [] k = 4 -> IF publisher # <<>> THEN ensureSpace(rr, 12 * Pt, FALSE) ELSE rr
          [] k = 5 -> IF publisher # <<>>
                      THEN adv(drawMainWrappedLink(rr, publisher, pubUrl, 90, 12 * Pt, FALSE),
                               6 * Pt)
                      ELSE rr
          [] k = 6 -> adv(rr, 6 * Pt)
  IN inOrder(statement, r, 6)

drawPublications(r, pubs) ==
  forEach(LAMBDA rr, pub : drawPublication(rr, pub), r, pubs)

(* the height the Publications section takes when laid out with room to spare *)
publicationsHeight(r) ==
  LET roomy == [r EXCEPT !.y = 100 * pageHeight, !.used = 0]
  IN IF clampArray(r.cv.publications) = <<>> THEN 0
     ELSE drawPublications(drawSectionHeader(roomy, sectionTitle(r, "pubTitle")),
                           clampArray(r.cv.publications)).used

PublicationsHeaderWhateverY(r) ==
  LET publications == clampArray(r.cv.publications)
  IN IF Len(publications) > 0
     THEN [drawSectionHeader(r, sectionTitle(r, "pubTitle")) EXCEPT !.pc = "pubEntries", !.i = 1]
     ELSE [r EXCEPT !.pc = "save", !.skipped = publicationsHeight(r)]

PublicationsHeaderWithoutMargin(r) ==
  LET publications == clampArray(r.cv.publications)
  IN IF Len(publications) > 0 /\ r.y > pageBottom
     THEN [drawSectionHeader(r, sectionTitle(r, "pubTitle")) EXCEPT !.pc = "pubEntries", !.i = 1]
     ELSE [r EXCEPT !.pc = "save", !.skipped = publicationsHeight(r)]

(* lines 707-711: r.skipped records the height of a section left out *)
PublicationsHeader(r) ==
  LET publications == clampArray(r.cv.publications)
  IN IF Len(publications) > 0 /\ r.y > pageBottom + 80 * Pt
     THEN [drawSectionHeader(r, sectionTitle(r, "pubTitle")) EXCEPT !.pc = "pubEntries", !.i = 1]
     ELSE [r EXCEPT !.pc = "save", !.skipped = publicationsHeight(r)]

(* lines 713-728, one entry *)
PublicationEntryAgain(r) == drawPublication(r, clampArray(r.cv.publications)[r.i])

PublicationEntry(r) ==
  [drawPublication(r, clampArray(r.cv.publications)[r.i]) EXCEPT !.i = @ + 1]

(* line 731 *)
Save(r) == [r EXCEPT !.pc = "done"]

----------------------------------------------------------------------------
(* CV records the runs are given *)

MaxWork == 17
MaxProfiles == 22
MaxSummaryLines == 13

Both(s) == [es |-> s, en |-> s]
Absent == [es |-> None, en |-> None]
Arr(items) == [isArray |-> TRUE, items |-> items]
NoArray == [isArray |-> FALSE]
Copies(n, x) == [i \in 1..n |-> x]

W(n) == Rep("W", n)

Words(n, w) == join(Copies(n, w), <<SP>>)

UrlShort == <<"h", "t", "t", "p", "s", ":", "/", "/", "x", ".", "i", "o", "/", "W", "i", "/">>
UrlLong == <<"h", "t", "t", "p", "s", ":", "/", "/", "x", ".", "i", "o", "/">> \o W(40)

NoBasics ==
  [name |-> None, label |-> Absent, summary |-> Absent, email |-> None, phone |-> None,
   url |-> None, image |-> None, profiles |-> NoArray]

SomeBasics ==
  [name |-> <<"W", "i", " ", "W">>, label |-> [es |-> <<"i", " ", "W">>, en |-> <<"W", " ", "i">>], summary |-> Absent,
   email |-> None, phone |-> None, url |-> None, image |-> None, profiles |-> NoArray]

EmptyCV ==
  [basics |-> NoBasics, work |-> NoArray, education |-> NoArray, projects |-> NoArray,
   skills |-> NoArray, softSkills |-> NoArray, languages |-> NoArray,
   publications |-> NoArray]

BaseCV == [EmptyCV EXCEPT !.basics = SomeBasics]

WorkActive ==
  [name |-> <<"W", "i">>, position |-> Both(<<"i">>), startDate |-> D2020, endDate |-> None,
   summary |-> Absent]

WorkPast ==
  [name |-> <<"W", "i">>, position |-> [es |-> <<"i">>, en |-> None], startDate |-> D2020,
   endDate |-> D2022,
   summary |-> Both(Words(3, W(9)) \o <<" ", "i", " ">> \o W(19) \o <<SP>> \o W(9))]

WorkKinds == {WorkActive, WorkPast}

APublication ==
  [name |-> Both(<<"W", "i">>), publisher |-> <<"W">>, releaseDate |-> D2022, url |-> UrlShort]

TwoLanguages ==
  Arr(<<[language |-> <<"S", "p", "a", "n", "i", "s", "h">>, fluency |-> <<"N", "a", "t", "i", "v", "e">>],
        [language |-> <<"I", "n", "g", "l", "é", "s">>, fluency |-> <<"A", "v", "a", "n", "z", "a", "d", "o">>]>>)

WorkCVs ==
  {[BaseCV EXCEPT !.work = Arr(Copies(n, w)), !.languages = ls, !.publications = ps] :
     n \in 0..MaxWork, w \in WorkKinds, ls \in {NoArray, TwoLanguages},
     ps \in {Arr(<<>>), Arr(<<APublication>>)}}

EducationKinds ==
  {[institution |-> inst, area |-> ar, startDate |-> s, endDate |-> e] :
     inst \in {<<"W", "i">>}, ar \in {Both(<<"i">>)},
     s \in {None, D2020, D2030}, e \in {None, D2022, D2030}}
  \cup {[institution |-> None, area |-> Absent, startDate |-> D2020, endDate |-> None]}

EducationCVs ==
  {[BaseCV EXCEPT !.education = Arr(<<e>>)] : e \in EducationKinds}
  \cup {[BaseCV EXCEPT !.education = Arr(<<e1, e2>>)] :
          e1 \in {eK \in EducationKinds : eK.startDate = D2020 /\ eK.endDate = D2022},
          e2 \in {eK \in EducationKinds : eK.startDate = D2020 /\ eK.endDate = None}}

SummaryKinds ==
  {Absent, Both(<<"W", "i", " ", "i">>)}
  \cup {Both(Words(n, W(17))) : n \in (MaxSummaryLines - 1)..MaxSummaryLines}
  \cup {[es |-> Words(MaxSummaryLines, W(17) \o <<" ", "i">>), en |-> Words(MaxSummaryLines, W(9))]}

AProfile == [network |-> <<"W">>, url |-> UrlShort]

ThreeRoles ==
  Arr(<<WorkActive, [WorkActive EXCEPT !.name = None],
        [WorkActive EXCEPT !.position = Absent], WorkPast>>)

SidebarCVs ==
  {[BaseCV EXCEPT !.basics.summary = sm, !.basics.profiles = Arr(Copies(np, AProfile)),
                  !.basics.image = img, !.basics.email = <<"W", "@", "i", ".", "W">>,
                  !.basics.phone = <<"5", "5", "5">>, !.work = ThreeRoles] :
     sm \in SummaryKinds, np \in {0, 2, MaxProfiles}, img \in {None, <<"/", "W", ".", "p", "n", "g">>}}

AProject ==
  [name |-> <<"W", "i">>, description |-> Both(Words(5, W(9))), url |-> UrlShort,
   github |-> <<"h", "t", "t", "p", "s", ":", "/", "/", "x", ".", "i", "o", "/", "i">>]

ProjectKinds ==
  {AProject,
   [AProject EXCEPT !.github = UrlShort],
   [AProject EXCEPT !.url = UrlLong, !.description = Absent],
   [AProject EXCEPT !.name = None],
   [AProject EXCEPT !.url = None, !.github = None]}

PublicationKinds ==
  {APublication,
   [APublication EXCEPT !.url = None],
   [APublication EXCEPT !.name = Both(W(45))],
   [APublication EXCEPT !.name = Absent, !.publisher = None, !.releaseDate = None],
   [APublication EXCEPT !.publisher = None, !.url = <<" ", " ">>]}

SectionCVs ==
  {[BaseCV EXCEPT !.projects = Arr(<<p>>), !.publications = Arr(<<q>>)] :
     p \in ProjectKinds, q \in PublicationKinds}
  \cup {[BaseCV EXCEPT !.projects = Arr(Copies(5, AProject)),
                       !.skills = Arr(<<[name |-> <<"W">>], [name |-> None], [name |-> <<"i">>]>>),
                       !.softSkills = Arr(<<W(30) \o <<SP>> \o W(30), <<" ">>, <<"i">>>>),
                       !.languages = TwoLanguages,
                       !.publications = Arr(Copies(2, APublication))]}

MaxPublications == 20

(* publication lists up to more than a page long, ending with every kind *)
PublicationCVs ==
  {[BaseCV EXCEPT !.publications = Arr(Copies(n, APublication) \o <<q>>)] :
     n \in 0..MaxPublications, q \in PublicationKinds}

(* projects with a long address after 0 to MaxWork work entries *)
ProjectPageCVs ==
  {[BaseCV EXCEPT !.work = Arr(Copies(n, WorkPast)),
                  !.projects = Arr(Copies(4, [AProject EXCEPT !.url = UrlLong]))] :
     n \in 0..MaxWork}

FullCV ==
  [BaseCV EXCEPT !.basics.summary = Both(Words(MaxSummaryLines, W(17))),
                 !.basics.image = <<"/", "W", ".", "p", "n", "g">>,
                 !.basics.profiles = Arr(<<AProfile>>),
                 !.work = Arr(<<WorkPast>>),
                 !.education =
                   Arr(<<[institution |-> <<"W", "i">>, area |-> Both(<<"i">>),
                          startDate |-> D2020, endDate |-> D2022]>>),
                 !.projects = Arr(<<AProject>>),
                 !.languages = TwoLanguages,
                 !.publications = Arr(<<[APublication EXCEPT !.name = Both(W(45))]>>)]

Langs == {"es", "en"}

DefaultEnv == [fontFiles |-> {}, image |-> "valid", sharp |-> TRUE, qrOk |-> TRUE]

Envs ==
  {[fontFiles |-> ff, image |-> a, sharp |-> TRUE, qrOk |-> q] :
     ff \in SUBSET {"Regular", "Bold", "SemiBold"}, a \in {"valid", "missing"},
     q \in BOOLEAN}

ImagePaths ==
  {<<"/", "W", ".", "p", "n", "g">>, <<"W", ".", "P", "N", "G">>,
   <<"/", "i", ".", "W", "/", "W", ".", "j", "p", "g">>, <<"/", "W", ".", "j", "p", "e", "g">>,
   <<"/", "W", ".", "w", "e", "b", "p">>, <<"/", "W", ".", "g", "i", "f">>,
   <<"/", "i", ".", "p", "n", "g", "/", "W">>, <<"/", ".", "p", "n", "g">>}

ImageEnvs ==
  {[DefaultEnv EXCEPT !.image = a, !.sharp = sh] :
     a \in {"valid", "corrupt", "missing"}, sh \in BOOLEAN}

ImageCVs == {[BaseCV EXCEPT !.basics.image = img] : img \in ImagePaths}

Scenarios ==
  (WorkCVs \X {"es"} \X {DefaultEnv})
  \cup (EducationCVs \X Langs \X {DefaultEnv})
  \cup (SidebarCVs \X Langs \X
          {DefaultEnv, [DefaultEnv EXCEPT !.fontFiles = {"Regular", "Bold"}]})
  \cup (SectionCVs \X {"es"} \X {DefaultEnv})
  \cup ({EmptyCV, FullCV} \X Langs \X Envs)
  \cup (ImageCVs \X {"en"} \X ImageEnvs)
  \cup ((PublicationCVs \cup ProjectPageCVs) \X {"es"} \X {DefaultEnv})

----------------------------------------------------------------------------
(* One run of generateCvPdfBytes, a step at a time *)

NewRun(cv, lang, env) ==
  [pc |-> "create", cv |-> cv, lang |-> lang, env |-> env,
   font |-> "none", fontBold |-> "none", page |-> 0, npages |-> 0, y |-> 0,
   used |-> 0, ensured |-> 0, skipped |-> 0, mainStartPage |-> 0, ops |-> <<>>, i |-> 0,
   header |-> <<>>, at |-> <<>>, reads |-> <<>>]

InLoop(r, name, items) == r.pc = name /\ r.i <= Len(items)

LoopDoneAnytime(r, name, items) == r.pc = name

LoopDone(r, name, items) == r.pc = name /\ r.i > Len(items)

Init ==
  /\ fn = NoFn
  /\ clock \in Today
  /\ \E sc \in Scenarios : run = NewRun(sc[1], sc[2], sc[3])
  /\ run2 = NoRun
  /\ main = NoMain

Tick ==
  /\ \E d \in Today : strLess(clock, d) /\ clock' = d
  /\ UNCHANGED <<fn, run, run2, main>>

Rest == UNCHANGED <<fn, clock, run2, main>>

DoLoadFonts == run.pc = "create" /\ run' = LoadFonts(run) /\ Rest
DoAvatar == run.pc = "avatar" /\ run' = Avatar(run) /\ Rest
DoAbout == run.pc = "about" /\ run' = About(run) /\ Rest
DoRoles == run.pc = "roles" /\ run' = Roles(run) /\ Rest
DoQrCode == run.pc = "qr" /\ run' = QrCode(run) /\ Rest
DoContact == run.pc = "contact" /\ run' = Contact(run) /\ Rest
DoMainHeader == run.pc = "main" /\ run' = MainHeader(run) /\ Rest
DoWorkHeader == run.pc = "workHeader" /\ run' = WorkHeader(run) /\ Rest
DoWorkEntry ==
  InLoop(run, "work", clampArray(run.cv.work)) /\ run' = WorkEntry(run, clock) /\ Rest
DoEducationHeader ==
  LoopDone(run, "work", clampArray(run.cv.work)) /\ run' = EducationHeader(run) /\ Rest
DoEducationEntry ==
  /\ InLoop(run, "education", clampArray(run.cv.education))
  /\ run' = EducationEntry(run, clock)
  /\ Rest
DoProjectsHeader ==
  /\ LoopDone(run, "education", clampArray(run.cv.education))
  /\ run' = ProjectsHeader(run)
  /\ Rest
DoProjectEntry ==
  InLoop(run, "projects", shownProjects(run)) /\ run' = ProjectEntry(run) /\ Rest
DoHardSkills ==
  /\ LoopDone(run, "projects", shownProjects(run)) \/ run.pc = "hardSkills"
  /\ run' = HardSkills(run)
  /\ Rest
DoSoftSkills == run.pc = "softSkills" /\ run' = SoftSkills(run) /\ Rest
DoLanguages == run.pc = "languages" /\ run' = Languages(run) /\ Rest
DoPublicationsHeader ==
  run.pc = "publications" /\ run' = PublicationsHeader(run) /\ Rest
DoPublicationEntry ==
  /\ InLoop(run, "pubEntries", clampArray(run.cv.publications))
  /\ run' = PublicationEntry(run)
  /\ Rest
DoSave ==
  /\ LoopDone(run, "pubEntries", clampArray(run.cv.publications)) \/ run.pc = "save"
  /\ run' = Save(run)
  /\ Rest

Next ==
  \/ Tick
  \/ DoLoadFonts \/ DoAvatar \/ DoAbout \/ DoRoles \/ DoQrCode \/ DoContact
  \/ DoMainHeader \/ DoWorkHeader \/ DoWorkEntry \/ DoEducationHeader
  \/ DoEducationEntry \/ DoProjectsHeader \/ DoProjectEntry \/ DoHardSkills
  \/ DoSoftSkills \/ DoLanguages \/ DoPublicationsHeader \/ DoPublicationEntry
  \/ DoSave

Spec == Init /\ [][Next]_vars

----------------------------------------------------------------------------
(* Two runs of generateCvPdfBytes on the same record, language and files,    *)
(* each reading the one wall clock                                           *)

Step(r, today) ==
  CASE r.pc = "create" -> LoadFonts(r)
    [] r.pc = "avatar" -> Avatar(r)
    [] r.pc = "about" -> About(r)
    [] r.pc = "roles" -> Roles(r)
    [] r.pc = "qr" -> QrCode(r)
    [] r.pc = "contact" -> Contact(r)
    [] r.pc = "main" -> MainHeader(r)
    [] r.pc = "workHeader" -> WorkHeader(r)
    [] InLoop(r, "work", clampArray(r.cv.work)) -> WorkEntry(r, today)
    [] LoopDone(r, "work", clampArray(r.cv.work)) -> EducationHeader(r)
    [] InLoop(r, "education", clampArray(r.cv.education)) -> EducationEntry(r, today)
    [] LoopDone(r, "education", clampArray(r.cv.education)) -> ProjectsHeader(r)
    [] InLoop(r, "projects", shownProjects(r)) -> ProjectEntry(r)
    [] LoopDone(r, "projects", shownProjects(r)) \/ r.pc = "hardSkills" -> HardSkills(r)
    [] r.pc = "softSkills" -> SoftSkills(r)
    [] r.pc = "languages" -> Languages(r)
    [] r.pc = "publications" -> PublicationsHeader(r)
    [] InLoop(r, "pubEntries", clampArray(r.cv.publications)) -> PublicationEntry(r)
    [] LoopDone(r, "pubEntries", clampArray(r.cv.publications)) \/ r.pc = "save" -> Save(r)

Running(r) == r.pc \notin {"done", "off"}

AnEducation ==
  [institution |-> <<"W", "i">>, area |-> Both(<<"i">>), startDate |-> D2020, endDate |-> D2022]

TwoRunCVs ==
  {[BaseCV EXCEPT !.work = Arr(<<w>>), !.education = Arr(es)] :
     w \in WorkKinds,
     es \in {<<AnEducation>>, <<AnEducation, [AnEducation EXCEPT !.endDate = None]>>}}

TwoInit ==
  /\ fn = NoFn
  /\ clock \in Today
  /\ \E cv \in TwoRunCVs, lang \in Langs :
       /\ run = NewRun(cv, lang, DefaultEnv)
       /\ run2 = NewRun(cv, lang, DefaultEnv)
  /\ main = NoMain

StepFirst == Running(run) /\ run' = Step(run, clock) /\ UNCHANGED <<fn, clock, run2, main>>

StepSecond == Running(run2) /\ run2' = Step(run2, clock) /\ UNCHANGED <<fn, clock, run, main>>

TwoNext == Tick \/ StepFirst \/ StepSecond

SpecTwoRuns == TwoInit /\ [][TwoNext]_vars

----------------------------------------------------------------------------
(* main: the two data files are read, the two documents are built by two     *)
(* calls of generateCvPdfBytes that take turns at their awaits, and the two   *)
(* files are written.  run is the call for 'es', run2 the call for 'en'.      *)
(* main.files says, for each data file, whether readJson gets a record from   *)
(* it; main.breaks where, if anywhere, the document library rejects a call    *)
(* (PDFDocument.create at line 122, pdfDoc.save at line 731).                 *)

promiseRace(a, b) == a \/ b

(* await Promise.all([a, b]) goes on when both promises are fulfilled *)
promiseAll(a, b) == a /\ b

TwoEducations == <<AnEducation, [AnEducation EXCEPT !.endDate = None]>>

MainCVs ==
  {[es |-> FullCV, en |-> [FullCV EXCEPT !.education = Arr(TwoEducations)]],
   [es |-> [BaseCV EXCEPT !.work = Arr(<<WorkPast>>), !.education = Arr(TwoEducations)],
    en |-> [BaseCV EXCEPT !.work = Arr(Copies(2, WorkActive)),
                          !.education = Arr(TwoEducations)]]}

FileStates == {"ok", "missing", "malformed"}

BreakPoints == {"none", "create", "save"}

MainBreaks ==
  {bs \in [Langs -> BreakPoints] : bs.es \in {"none", "create"} /\ bs.en \in {"none", "save"}}

MainInit ==
  /\ fn = NoFn
  /\ clock \in Today
  /\ run = NoRun
  /\ run2 = NoRun
  /\ \E cvs \in MainCVs, fs \in [Langs -> FileStates], bs \in MainBreaks :
       main = [pc |-> "reading", cvs |-> cvs, files |-> fs, breaks |-> bs,
               read |-> {}, written |-> {}]

(* lines 84-87, called at line 738: readFile or JSON.parse throws, or the   *)
(* record is returned                                                       *)
readJson(m, l) ==
  IF m.files[l] = "ok"
  THEN [m EXCEPT !.read = @ \cup {l}]
  ELSE [m EXCEPT !.pc = "failed"]

DoReadJson ==
  /\ main.pc = "reading"
  /\ \E l \in Langs \ main.read : main' = readJson(main, l)
  /\ UNCHANGED <<fn, clock, run, run2>>

(* lines 740-743: both calls are made once both records are there *)
StartTasks ==
  /\ main.pc = "reading"
  /\ promiseAll("es" \in main.read, "en" \in main.read)
  /\ main' = [main EXCEPT !.pc = "rendering"]
  /\ run' = NewRun(main.cvs.es, "es", DefaultEnv)
  /\ run2' = NewRun(main.cvs.en, "en", DefaultEnv)
  /\ UNCHANGED <<fn, clock>>

Saving(r) == LoopDone(r, "pubEntries", clampArray(r.cv.publications)) \/ r.pc = "save"

TaskRunning(r) == r.pc \notin {"done", "off", "failed"}

resumeSharingLang(r, other, today) == Step([r EXCEPT !.lang = other.lang], today)

(* a call goes on from its await with its own cv, lang, fonts, page and y    *)
(* (parameters and variables of the function, lines 121-174), whatever the   *)
(* other call has done meanwhile                                             *)
resume(r, other, today) == Step(r, today)

taskStep(r, other, break, today) ==
  IF (r.pc = "create" /\ break = "create") \/ (Saving(r) /\ break = "save")
  THEN [r EXCEPT !.pc = "failed"]
  ELSE resume(r, other, today)

StepEs ==
  /\ main.pc = "rendering"
  /\ TaskRunning(run)
  /\ run' = taskStep(run, run2, main.breaks.es, clock)
  /\ UNCHANGED <<fn, clock, run2, main>>

StepEn ==
  /\ main.pc = "rendering"
  /\ TaskRunning(run2)
  /\ run2' = taskStep(run2, run, main.breaks.en, clock)
  /\ UNCHANGED <<fn, clock, run, main>>

(* Promise.all rejects as soon as one of the calls has rejected *)
BuildFailed ==
  /\ main.pc = "rendering"
  /\ run.pc = "failed" \/ run2.pc = "failed"
  /\ main' = [main EXCEPT !.pc = "failed"]
  /\ UNCHANGED <<fn, clock, run, run2>>

(* lines 740-746: with both documents' bytes, fs.mkdir, which may fail *)
Mkdir ==
  /\ main.pc = "rendering"
  /\ promiseAll(run.pc = "done", run2.pc = "done")
  /\ \E ok \in BOOLEAN : main' = [main EXCEPT !.pc = IF ok THEN "writing" ELSE "failed"]
  /\ UNCHANGED <<fn, clock, run, run2>>

(* lines 748-751: each fs.writeFile writes its file or fails *)
WriteFile ==
  /\ main.pc = "writing"
  /\ \E l \in Langs \ main.written, ok \in BOOLEAN :
       main' = IF ok THEN [main EXCEPT !.written = @ \cup {l}]
               ELSE [main EXCEPT !.pc = "failed"]
  /\ UNCHANGED <<fn, clock, run, run2>>

(* line 753 *)
Finish ==
  /\ main.pc = "writing"
  /\ main.written = Langs
  /\ main' = [main EXCEPT !.pc = "done"]
  /\ UNCHANGED <<fn, clock, run, run2>>

MainNext ==
  \/ Tick \/ DoReadJson \/ StartTasks \/ StepEs \/ StepEn \/ BuildFailed
  \/ Mkdir \/ WriteFile \/ Finish

SpecMain == MainInit /\ [][MainNext]_vars

----------------------------------------------------------------------------
(* The pure functions applied to inputs drawn from bounded sets *)

MaxTextLen == 9

Alphabet == {"W", "i", SP}

Texts == UNION {[1..n -> Alphabet] : n \in 0..MaxTextLen}

Fonts == {"Helvetica", "Fira"}

WrapWidths == {205600}

FnWrapInputs ==
  {[pc |-> "text", font |-> f, text |-> t, maxWidth |-> m, size10 |-> 100,
    lines |-> <<>>, out |-> <<>>] :
      f \in Fonts, t \in Texts \cup {None}, m \in WrapWidths}

FnDateInputs ==
  {[pc |-> "dates", startDate |-> s, endDate |-> e, out |-> <<>>] :
      s \in Dates \cup {None}, e \in Dates \cup {None, <<>>}}

(* the keys of esMap and of enMap *)
esTerms ==
  {<<"S", "p", "a", "n", "i", "s", "h">>, <<"E", "n", "g", "l", "i", "s", "h">>,
   <<"N", "a", "t", "i", "v", "e", " ", "s", "p", "e", "a", "k", "e", "r">>,
   <<"N", "a", "t", "i", "v", "e">>, <<"A", "d", "v", "a", "n", "c", "e", "d">>}

enTerms ==
  {<<"E", "s", "p", "a", "ñ", "o", "l">>, <<"I", "n", "g", "l", "é", "s">>,
   <<"N", "a", "t", "i", "v", "o">>, <<"A", "v", "a", "n", "z", "a", "d", "o">>}

TermValues ==
  esTerms \cup enTerms
    \cup {None, <<>>, <<"W", "i">>, <<"W", " ", "i">>, <<" ", "W", "i">>,
          <<"N", "a", "t", "i", "v", "o", " ">>, <<"n", "a", "t", "i", "v", "e">>}

FnTermInputs ==
  {[pc |-> "term", value |-> v, lang |-> l, out |-> <<>>, back |-> <<>>] :
      v \in TermValues, l \in Langs}

(* cursors at the top of a page, around the two floors and below them, and *)
(* the heights the code asks for, up to more than a page                    *)
CursorYs ==
  {pageHeight - margin, 400 * Pt, 61 * Pt, 61 * Pt - 1, 48 * Pt, 33 * Pt, 33 * Pt - 1,
   20 * Pt, 0, 0 - 5 * Pt}

RequiredSpaces ==
  {0, 1, 11 * Pt, 13 * Pt, 120 * 1400, 219000, 30 * Pt, 110 * Pt,
   (pageHeight - margin) - pageBottom, (pageHeight - margin) - pageBottom + 1,
   (pageHeight - margin) - sidebarFloor, (pageHeight - margin) - sidebarFloor + 1}

FnCursorInputs ==
  {[pc |-> "cursor", y |-> y, page |-> n, npages |-> n, ops |-> <<>>, used |-> 0,
    ensured |-> 0,
    minSpace |-> m, isSidebar |-> sb, out |-> NoRun] :
      y \in CursorYs, n \in 1..2, m \in RequiredSpaces, sb \in BOOLEAN}

(* pages that already carry a background and a link annotation each *)
PriorOps(n) ==
  [k \in 1..(2 * n) |->
     IF k % 2 = 1
     THEN [pg |-> (k + 1) \div 2, kind |-> "bg", region |-> "sidebar", x |-> 0, y |-> 0,
           w |-> sidebarWidth, h |-> pageHeight, text |-> <<>>, bold |-> FALSE]
     ELSE [pg |-> k \div 2, kind |-> "annot", region |-> "main", x |-> mainX, y |-> 700 * Pt,
           w |-> 10 * Pt, h |-> 13 * Pt, text |-> <<"h", "t", "t", "p", ":", "/", "/", "i">>,
           bold |-> FALSE]]

LinkTexts ==
  {None, <<>>, <<" ", " ">>, <<"W", "i">>, Words(2, W(30)), Words(3, W(30)), W(60),
   Words(30, <<"i", "i">>)}

LinkUrls == {None, <<>>, <<" ", " ">>, UrlShort, <<" ">> \o UrlShort \o <<" ">>}

LinkYs == {pageHeight - margin, pageBottom + 30 * Pt, pageBottom + 14 * Pt, pageBottom}

FnLinkInputs ==
  {[pc |-> "link", font |-> f[1], fontBold |-> f[2], y |-> y, page |-> n, npages |-> n,
    ops |-> PriorOps(n), used |-> 0, ensured |-> 0, text |-> t, url |-> u, bold |-> b,
    out |-> NoRun] :
      f \in {<<"Helvetica", "Helvetica">>, <<"Fira", "FiraBold">>, <<"Helvetica", "FiraBold">>},
      y \in LinkYs, n \in 1..2, t \in LinkTexts, u \in LinkUrls, b \in BOOLEAN}

Routines == {"sidebar", "main", "centered"}

FnDrawInputs ==
  {[pc |-> "draw", routine |-> d, font |-> "Helvetica", fontBold |-> "Helvetica", y |-> y,
    page |-> 1, npages |-> 1, ops |-> PriorOps(1), used |-> 0, ensured |-> 0, text |-> t,
    justify |-> j, out |-> NoRun] :
      d \in Routines, y \in LinkYs \cup {sidebarFloor}, t \in LinkTexts, j \in BOOLEAN}

FnInit ==
  /\ fn \in FnWrapInputs \cup FnDateInputs \cup FnTermInputs \cup FnCursorInputs
             \cup FnLinkInputs \cup FnDrawInputs
  /\ clock = D2019
  /\ run = NoRun
  /\ run2 = NoRun
  /\ main = NoMain

FnWrap ==
  /\ fn.pc = "text"
  /\ fn' = [fn EXCEPT !.pc = "wrapped",
                      !.lines = wrapText(fn.font, fn.text, fn.maxWidth, fn.size10)]
  /\ UNCHANGED <<clock, run, run2, main>>

(* the lines drawMainWrapped draws with justify: true *)
FnJustify ==
  /\ fn.pc = "wrapped"
  /\ fn' = [fn EXCEPT !.pc = "justified",
                      !.out = justifyAll(fn.font, fn.lines, fn.maxWidth, fn.size10, TRUE)]
  /\ UNCHANGED <<clock, run, run2, main>>

FnYearRange ==
  /\ fn.pc = "dates"
  /\ fn' = [fn EXCEPT !.pc = "ranged", !.out = yearRange(fn.startDate, fn.endDate)]
  /\ UNCHANGED <<clock, run, run2, main>>

otherLang(lang) == IF lang = "es" THEN "en" ELSE "es"

(* lines 697-698 call translateCommonLanguageTerms(safeText(field), lang) *)
FnTranslate ==
  /\ fn.pc = "term"
  /\ fn' = [fn EXCEPT !.pc = "translated",
                      !.out = translateCommonLanguageTerms(safeText(fn.value), fn.lang)]
  /\ UNCHANGED <<clock, run, run2, main>>

(* the result handed to the function again, for the other language *)
FnTranslateBack ==
  /\ fn.pc = "translated"
  /\ fn' = [fn EXCEPT !.pc = "translatedBack",
                      !.back = translateCommonLanguageTerms(fn.out, otherLang(fn.lang))]
  /\ UNCHANGED <<clock, run, run2, main>>

(* ensureSpace called on a page with the cursor at fn.y *)
FnEnsureSpace ==
  /\ fn.pc = "cursor"
  /\ fn' = [fn EXCEPT !.pc = "ensured", !.out = ensureSpace(fn, fn.minSpace, fn.isSidebar)]
  /\ UNCHANGED <<clock, run, run2, main>>

(* drawMainWrappedLink called as for a publication title, size 11 and line *)
(* height 14                                                               *)
FnLink ==
  /\ fn.pc = "link"
  /\ fn' = [fn EXCEPT !.pc = "linked",
                      !.out = drawMainWrappedLink(fn, fn.text, fn.url, 110, 14 * Pt, fn.bold)]
  /\ UNCHANGED <<clock, run, run2, main>>

(* the wrapped-draw routines with their default size 9 and line height 13 *)
FnDrawWrapped ==
  /\ fn.pc = "draw"
  /\ fn' = [fn EXCEPT
             !.pc = "drawn",
             !.out = CASE fn.routine = "sidebar" ->
                            drawSidebarWrapped(fn, fn.text, 90, 13 * Pt, fn.justify)
                       [] fn.routine = "main" ->
                            drawMainWrapped(fn, fn.text, 90, 13 * Pt, fn.justify, FALSE)
                       [] fn.routine = "centered" ->
                            drawMainWrappedCentered(fn, fn.text, 90, 13 * Pt, FALSE)]
  /\ UNCHANGED <<clock, run, run2, main>>

FnNext ==
  \/ FnWrap \/ FnJustify \/ FnYearRange \/ FnTranslate \/ FnTranslateBack
  \/ FnEnsureSpace \/ FnLink \/ FnDrawWrapped

SpecFn == FnInit /\ [][FnNext]_vars

----------------------------------------------------------------------------
(* Claims about wrapText, justifyLine and yearRange *)

HasSpace(s) == \E i \in 1..Len(s) : IsSpace(s[i])

Abs(a) == IF a < 0 THEN -a ELSE a

FnWrapped == fn.pc \in {"wrapped", "justified"}

(* C1: every line wrapText returns measures at most maxWidth, or is one *)
(* whitespace-free token that alone is wider than maxWidth               *)
C1_WrapBound ==
  FnWrapped =>
    \A i \in 1..Len(fn.lines) :
      LET line == fn.lines[i]
          w == widthOf(fn.font, line, fn.size10)
      IN w <= fn.maxWidth \/ (~HasSpace(line) /\ line # <<>> /\ w > fn.maxWidth)

C1_Witness ==
  /\ fn.pc = "wrapped"
  /\ \E i, j \in 1..Len(fn.lines) :
       /\ ~HasSpace(fn.lines[i])
       /\ widthOf(fn.font, fn.lines[i], fn.size10) > fn.maxWidth
       /\ HasSpace(fn.lines[j])
       /\ widthOf(fn.font, fn.lines[j], fn.size10) <= fn.maxWidth

(* the width of the space glyph *)
SpaceWidth == widthOf(fn.font, <<SP>>, fn.size10)

JustifiedOff(i) == Abs(widthOf(fn.font, fn.out[i], fn.size10) - fn.maxWidth)

(* C2 as stated: a justified non-last line of at least 2 words, whatever the *)
(* number of words, has a rendered width within one space glyph of maxWidth  *)
C2_WithinOneSpace ==
  fn.pc = "justified" =>
    \A i \in 1..(Len(fn.lines) - 1) :
      Len(splitWs(fn.lines[i])) >= 2 => JustifiedOff(i) <= SpaceWidth

(* C2 amended: a justified non-last line of n >= 2 words has a rendered     *)
(* width within half a space glyph per gap, (n - 1) / 2 space widths, of     *)
(* maxWidth; so within one space glyph when the line has 2 or 3 words        *)
C2_WithinHalfSpacePerGap ==
  fn.pc = "justified" =>
    \A i \in 1..(Len(fn.lines) - 1) :
      LET n == Len(splitWs(fn.lines[i]))
      IN n >= 2 =>
           /\ 2 * JustifiedOff(i) <= (n - 1) * SpaceWidth
           /\ (n <= 3 => JustifiedOff(i) <= SpaceWidth)

C2_Witness ==
  /\ fn.pc = "justified"
  /\ \E i \in 1..(Len(fn.lines) - 1) :
       /\ Len(splitWs(fn.lines[i])) >= 3
       /\ Len(fn.out[i]) > Len(fn.lines[i])

(* C10 as stated: a start date and no end date give the single start year; *)
(* no dates give the empty string                                           *)
C10_SingleYearWhenNoEnd ==
  fn.pc = "ranged" =>
    /\ (Truthy(fn.startDate) /\ ~Truthy(fn.endDate))
         => fn.out = slice(fn.startDate, 0, 4)
    /\ (~Truthy(fn.startDate) /\ ~Truthy(fn.endDate)) => fn.out = <<>>

Mapped(value, lang) ==
  \/ lang = "es" /\ value \in esTerms
  \/ lang = "en" /\ value \in enTerms

(* C11 as stated: a term the table maps for one language comes back when the *)
(* result is translated with the other language, and a value the table does  *)
(* not map for the language is returned unchanged                            *)
C11_RoundTrip ==
  fn.pc = "translatedBack" =>
    IF Mapped(fn.value, fn.lang)
    THEN fn.back = fn.value
    ELSE fn.out = safeText(fn.value)

RegionFloor == IF fn.isSidebar THEN 20 * Pt ELSE 48 * Pt

(* C18: ensureSpace adds a page exactly when y - required is below the floor *)
(* of the region, 20 for the sidebar and 48 for the main column; it adds at  *)
(* most one page, which becomes the current page with y at the top margin;   *)
(* otherwise the page, y and the drawn items are unchanged; and afterwards   *)
(* y - required is at or above the floor whenever required fits on a page    *)
C18_EnsureSpace ==
  fn.pc = "ensured" =>
    /\ fn.out.npages = fn.npages + 1 <=> fn.y - fn.minSpace < RegionFloor
    /\ fn.out.npages \in {fn.npages, fn.npages + 1}
    /\ fn.out.npages = fn.npages =>
         fn.out.y = fn.y /\ fn.out.page = fn.page /\ fn.out.ops = fn.ops
    /\ fn.out.npages = fn.npages + 1 =>
         /\ fn.out.page = fn.out.npages
         /\ fn.out.y = pageHeight - margin
         /\ Len(fn.out.ops) = 1 /\ fn.out.ops[1].kind = "bg" /\ fn.out.ops[1].pg = fn.out.page
    /\ fn.minSpace <= (pageHeight - margin) - RegionFloor =>
         fn.out.y - fn.minSpace >= RegionFloor

C18_Witness ==
  /\ fn.pc = "ensured"
  /\ fn.isSidebar
  /\ fn.y - fn.minSpace = 20 * Pt - 1
  /\ fn.out.npages = 2 /\ fn.out.page = 2
  /\ fn.out.y - fn.minSpace >= 20 * Pt

----------------------------------------------------------------------------
(* Claims about one run *)

Started == run.pc \notin {"off", "create"}

OpsOf(kind) == {k \in 1..Len(run.ops) : run.ops[k].kind = kind}

SummaryDraws == SelectSeq(run.ops, LAMBDA op : op.kind = "text" /\ op.h = 85)

WrappedSummary ==
  wrapText(run.font, i18nText(run.cv.basics.summary, run.lang), sidebarTextWidth, 85)

EndsWithEllipsis(s) == Len(s) >= 3 /\ SubSeq(s, Len(s) - 2, Len(s)) = ELLIPSIS

(* C3: a biography that wraps to more than maxLines lines is drawn as exactly *)
(* maxLines lines, the last ending in "..." and, with the ellipsis, no wider  *)
(* than the sidebar column                                                    *)
C3_EllipsisTruncation ==
  (run.pc \in {"roles", "done"} /\ Len(WrappedSummary) > maxLines) =>
    LET last == SummaryDraws[Len(SummaryDraws)].text
    IN /\ Len(SummaryDraws) = maxLines
       /\ EndsWithEllipsis(last)
       /\ widthOf(run.font, last, 85) <= sidebarTextWidth

C3_Witness ==
  /\ run.pc = "roles"
  /\ Len(WrappedSummary) > maxLines
  /\ Len(SummaryDraws) = maxLines
  /\ EndsWithEllipsis(SummaryDraws[maxLines].text)
  /\ SummaryDraws[maxLines].text # WrappedSummary[maxLines] \o ELLIPSIS

MainCapacity == (pageHeight - margin) - pageBottom

(* C4 as stated: main-column content whose cumulative height, the skipped    *)
(* Publications section included, exceeds one page's capacity gives at least *)
(* 2 pages                                                                   *)
C4_TwoPagesWhenContentExceeds ==
  (run.pc = "done" /\ run.used + run.skipped > MainCapacity) => run.npages >= 2

(* C4 amended: when the main-column content that is rendered (a Publications *)
(* section skipped at y <= pageBottom + 80 adds nothing) advances the cursor *)
(* by more than one page's capacity plus the 12 pt of spacing that may trail *)
(* the last draw, the finished document has at least 2 pages                 *)
C4_TwoPagesWhenRenderedExceeds ==
  (run.pc = "done" /\ run.used > MainCapacity + 12 * Pt) => run.npages >= 2

C4_Witness ==
  /\ run.pc = "done"
  /\ run.used > MainCapacity + 12 * Pt
  /\ run.mainStartPage = 1
  /\ run.npages = 2

(* C5: every page carries the sidebar background rectangle, and it is placed *)
(* on the page before any text, image, line or annotation                    *)
C5_BackgroundFirstOnEveryPage ==
  Started =>
    /\ \A p \in 1..run.npages :
         \E b \in OpsOf("bg") :
           /\ run.ops[b].pg = p
           /\ \A k \in 1..(b - 1) : run.ops[k].pg # p
    /\ \A k \in 1..Len(run.ops) : run.ops[k].pg \in 1..run.npages

C5_Witness ==
  /\ run.pc = "done"
  /\ run.npages = 2
  /\ run.mainStartPage = 2
  /\ run.ops[1].kind = "bg"
  /\ \E k \in OpsOf("text") : run.ops[k].pg = 2 /\ run.ops[k].region = "main"

(* C6 as stated: every link annotation rectangle lies within the page and *)
(* has a non-negative height                                              *)
C6_AnnotationsWithinPage ==
  Started =>
    \A k \in OpsOf("annot") :
      LET a == run.ops[k]
      IN /\ 0 <= a.x /\ a.x + a.w <= pageWidth
         /\ 0 <= a.y /\ a.y + a.h <= pageHeight
         /\ a.h >= 0

LastEducation == clampArray(run.cv.education)[run.i - 1]

AfterEducationEntry == run.pc = "education" /\ run.i > 1

LastRead == run.reads[Len(run.reads)]

Year(date) == slice(safeText(date), 0, 4)

SEP == <<SP, "|", SP>>

DASH == <<SP, "-", SP>>

WithSep(a, b) == IF a = <<>> THEN b ELSE IF b = <<>> THEN a ELSE a \o SEP \o b

Active(startDate, endDate, today) ==
  /\ Truthy(startDate)
  /\ strLeq(startDate, today)
  /\ ~Truthy(endDate) \/ strLeq(today, endDate)

(* C8 as stated: the education header is "institution | <in-progress label>" *)
(* exactly when the entry is active today, and "institution | startYear -    *)
(* endYear" in every other case                                              *)
C8_EducationHeaderAsStated ==
  AfterEducationEntry =>
    LET e == LastEducation
    IN run.header =
         IF Active(e.startDate, e.endDate, LastRead)
         THEN safeText(e.institution) \o SEP \o inProgressLabel(run)
         ELSE safeText(e.institution) \o SEP \o Year(e.startDate) \o DASH \o Year(e.endDate)

(* C8 amended: the education header is the institution and the in-progress  *)
(* label, joined by " | ", exactly when the start date is present, start <=  *)
(* today, and the end date is absent or today <= end; in every other case it *)
(* is the institution followed, when the entry has a date, by " | " and the  *)
(* text of yearRange, which is "startYear - endYear" when both dates are     *)
(* present; an empty institution is left out together with the separator.   *)
(* So an entry whose end date has passed is never marked in progress.        *)
C8_EducationHeader ==
  AfterEducationEntry =>
    LET e == LastEducation
        inst == safeText(e.institution)
    IN IF Active(e.startDate, e.endDate, LastRead)
       THEN run.header = WithSep(inst, inProgressLabel(run))
       ELSE /\ run.header = WithSep(inst, yearRange(e.startDate, e.endDate))
            /\ (Truthy(e.startDate) /\ Truthy(e.endDate))
                 => run.header = WithSep(inst, Year(e.startDate) \o DASH \o Year(e.endDate))
            /\ (~Truthy(e.startDate) /\ ~Truthy(e.endDate)) => run.header = inst

C8_Witness ==
  /\ AfterEducationEntry
  /\ Truthy(LastEducation.endDate)
  /\ Active(LastEducation.startDate, LastEducation.endDate, LastRead)
  /\ run.header = safeText(LastEducation.institution) \o SEP \o inProgressLabel(run)
  /\ \E k \in OpsOf("text") : run.ops[k].text = run.header /\ run.ops[k].bold

LastWork == clampArray(run.cv.work)[run.i - 1]

(* C9 as stated: a work entry that is active on the day it is rendered shows *)
(* the in-progress label after the company name instead of a date range      *)
C9_ActiveWorkInProgress ==
  (run.pc = "work" /\ run.i > 1
     /\ Active(LastWork.startDate, LastWork.endDate, run.at)) =>
    run.header = WithSep(safeText(LastWork.name), inProgressLabel(run))

TextOps(region, size10) ==
  SelectSeq(run.ops, LAMBDA op : op.kind = "text" /\ op.region = region /\ op.h = size10)

TextsOf(ops) == [k \in 1..Len(ops) |-> ops[k].text]

IsPrefix(a, b) == Len(a) <= Len(b) /\ SubSeq(b, 1, Len(a)) = a

SidebarTitles ==
  <<sectionTitle(run, "summaryTitle"), sectionTitle(run, "rolesTitle"),
    sectionTitle(run, "qrTitle"), sectionTitle(run, "contactTitle")>>

(* the titles of the main column up to Languages *)
MainTitles ==
  <<sectionTitle(run, "expTitle"), sectionTitle(run, "eduTitle")>>
    \o (IF Len(clampArray(run.cv.projects)) > 0
        THEN <<sectionTitle(run, "trainTitle")>> ELSE <<>>)
    \o <<sectionTitle(run, "hardSkillsTitle"), sectionTitle(run, "softSkillsTitle"),
         sectionTitle(run, "langsTitle")>>

ArrayFields ==
  {"work", "education", "projects", "skills", "softSkills", "languages", "publications"}

NoArrays == \A f \in ArrayFields : ~run.cv[f].isArray

NoLinks ==
  /\ \A k \in 1..Len(clampArray(run.cv.projects)) :
       /\ trim(safeText(clampArray(run.cv.projects)[k].url)) = <<>>
       /\ trim(safeText(clampArray(run.cv.projects)[k].github)) = <<>>
  /\ \A k \in 1..Len(clampArray(run.cv.publications)) :
       trim(safeText(clampArray(run.cv.publications)[k].url)) = <<>>

MainBodyTexts ==
  SelectSeq(run.ops, LAMBDA op : op.kind = "text" /\ op.region = "main"
                                   /\ op.h \notin {140, 220})

C12_OmitsOnlyAbsent ==
  /\ \A k \in 1..Len(run.ops) : run.ops[k].text # None
  /\ TextsOf(TextOps("sidebar", 120)) = SidebarTitles
  /\ IsPrefix(MainTitles, TextsOf(TextOps("main", 140)))
  /\ i18nText(run.cv.basics.summary, run.lang) = <<>> => SummaryDraws = <<>>
  /\ safeText(run.cv.basics.image) = <<>>
       => \A k \in OpsOf("image") : run.ops[k].w # 85 * Pt
  /\ safeText(run.cv.basics.name) = <<>> => TextOps("main", 220) = <<>>
  /\ NoLinks => OpsOf("annot") = {}
  /\ NoArrays =>
       TextsOf(MainBodyTexts)
         = wrapText(run.font, i18nText(run.cv.basics.label, run.lang), mainWidth, 110)

(* the place of a run in generateCvPdfBytes: the statement it is at, and the *)
(* entry it is at within a loop                                             *)
PcOrder ==
  <<"create", "avatar", "about", "roles", "qr", "contact", "main", "workHeader", "work",
    "education", "projects", "hardSkills", "softSkills", "languages", "publications",
    "pubEntries", "save", "done">>

PcRank(pc) == CHOOSE k \in 1..Len(PcOrder) : PcOrder[k] = pc

Position(r) == 100 * PcRank(r.pc) + (IF r.pc \in {"work", "education", "projects", "pubEntries"} THEN r.i ELSE 0)

(* C12: whatever optional fields of the record are absent, a run that has    *)
(* not reached the end always has a next step, which takes it forward, so    *)
(* it runs to completion; no text is ever made from an absent value; and at  *)
(* the end nothing is drawn for an absent summary, image, name, link or      *)
(* array, while the title of every section of the sidebar and of the main    *)
(* column up to Languages is drawn                                           *)
C12_CompletesOmittingAbsent ==
  /\ Running(run) => Position(Step(run, clock)) > Position(run)
  /\ \A k \in 1..Len(run.ops) : run.ops[k].text # None
  /\ run.pc = "done" => C12_OmitsOnlyAbsent

C12_Witness ==
  /\ run.pc = "done"
  /\ run.cv = EmptyCV
  /\ C12_OmitsOnlyAbsent
  /\ Len(TextOps("main", 140)) = 5
  /\ MainBodyTexts = <<>>

ImgRel == safeText(run.cv.basics.image)

Embedded == embedImage(run.env, imgPathOf(ImgRel))

SupportedExt == {PNG, JPG, JPEG, WEBP}

AvatarDraws == {k \in OpsOf("image") : run.ops[k].w = 85 * Pt}

(* C15: embedImage returns and never throws; it returns null when the file  *)
(* is missing, the extension is not one it handles, the bytes cannot be     *)
(* decoded, or the re-encoding of a .webp fails; and with a null avatar the  *)
(* run goes on to the About title, drawn at the top of the first page: no    *)
(* image is drawn, y and the page are as they were                           *)
C15_NullAvatarSkipped ==
  Started =>
    /\ Embedded.kind = "return"
    /\ Embedded.value \in {None, Image}
    /\ (\/ run.env.image \in {"missing", "corrupt"}
        \/ toLowerCase(extname(imgPathOf(ImgRel))) \notin SupportedExt
        \/ toLowerCase(extname(imgPathOf(ImgRel))) = WEBP /\ ~run.env.sharp)
         => Embedded.value = None
    /\ (Embedded.value = None /\ run.pc # "avatar") =>
         /\ AvatarDraws = {}
         /\ run.pc = "about" =>
              run.y = pageHeight - margin /\ run.page = 1 /\ run.npages = 1 /\ Len(run.ops) = 1
         /\ run.pc # "about" =>
              /\ run.ops[2].text = sectionTitle(run, "summaryTitle")
              /\ run.ops[2].y = pageHeight - margin
              /\ run.ops[2].pg = 1

C15_Witness ==
  /\ run.pc = "roles"
  /\ ImgRel # <<>>
  /\ toLowerCase(extname(imgPathOf(ImgRel))) = WEBP
  /\ run.env.image = "valid" /\ ~run.env.sharp
  /\ Embedded = Returns(None)
  /\ AvatarDraws = {}
  /\ run.ops[2].text = sectionTitle(run, "summaryTitle")

(* the titles of the main column in the order of the code *)
AllMainTitles(r) ==
  <<sectionTitle(r, "expTitle"), sectionTitle(r, "eduTitle"), sectionTitle(r, "trainTitle"),
    sectionTitle(r, "hardSkillsTitle"), sectionTitle(r, "softSkillsTitle"),
    sectionTitle(r, "langsTitle"), sectionTitle(r, "pubTitle")>>

(* the places in the log of a run of the section titles drawn so far *)
TitleOps(r) ==
  {k \in 1..Len(r.ops) :
     r.ops[k].kind = "text" /\ r.ops[k].region = "main" /\ r.ops[k].h = 140}

SectionOf(r, k) == CHOOSE n \in 1..7 : AllMainTitles(r)[n] = r.ops[k].text

(* the entries of the loop a run is in, if it is in one *)
EntriesLeft(r) ==
  CASE r.pc = "work" -> Len(clampArray(r.cv.work)) - r.i + 1
    [] r.pc = "education" -> Len(clampArray(r.cv.education)) - r.i + 1
    [] r.pc = "projects" -> Len(shownProjects(r)) - r.i + 1
    [] r.pc = "pubEntries" -> Len(clampArray(r.cv.publications)) - r.i + 1
    [] OTHER -> 0

InOrder(r) ==
  /\ \A k \in TitleOps(r) : r.ops[k].text \in {AllMainTitles(r)[n] : n \in 1..7}
  /\ \A k, l \in TitleOps(r) : k < l => SectionOf(r, k) < SectionOf(r, l)
  /\ \A k \in TitleOps(r) :
       /\ \A j \in (k + 1)..Len(r.ops) : r.ops[j].region = "sidebar" => r.ops[j].kind = "bg"
       /\ \E j \in 1..(k - 1) : r.ops[j].text = sectionTitle(r, "contactTitle")
       /\ r.mainStartPage >= 1

SectionStep ==
  /\ InOrder(run')
  /\ Cardinality(TitleOps(run')) <= Cardinality(TitleOps(run)) + 1
  /\ Cardinality(TitleOps(run')) > Cardinality(TitleOps(run)) => EntriesLeft(run) <= 0
  /\ run'.pc = "done" =>
       {1, 2, 4, 5, 6} \subseteq {SectionOf(run', k) : k \in TitleOps(run')}

(* C16: in every step of a run the section titles drawn so far are in the   *)
(* order experience, education, trainings, hard skills, soft skills,         *)
(* languages, publications, none drawn twice, all of them after the sidebar  *)
(* contents and the start of the main column; a step draws at most one new   *)
(* title, and only when the loop over the entries of the section before has  *)
(* no entry left; at the end the five unconditional sections have been       *)
(* entered                                                                   *)
C16_SectionOrder == [][SectionStep]_vars

C16_Witness ==
  /\ run.pc = "done"
  /\ Cardinality(TitleOps(run)) = 7
  /\ InOrder(run)
  /\ Len(shownProjects(run)) = 4
  /\ Len(clampArray(run.cv.publications)) >= 2

Publications == clampArray(run.cv.publications)

PubTitleDrawn(r) == \E k \in TitleOps(r) : r.ops[k].text = sectionTitle(r, "pubTitle")

NewOps == SubSeq(run'.ops, Len(run.ops) + 1, Len(run'.ops))

PublicationsStep ==
  /\ (run.pc = "publications" /\ run' # run) =>
       IF Len(Publications) > 0 /\ run.y > pageBottom + 80 * Pt
       THEN /\ run'.pc = "pubEntries"
            /\ PubTitleDrawn(run') /\ ~PubTitleDrawn(run)
       ELSE /\ run'.pc = "save"
            /\ run'.ops = run.ops
            /\ run'.npages = run.npages /\ run'.page = run.page /\ run'.y = run.y
  /\ (run.pc = "pubEntries" /\ run' # run /\ run.i <= Len(Publications)) =>
       LET pub == Publications[run.i]
       IN /\ i18nText(pub.name, run.lang) # <<>> =>
               \E k \in 1..Len(NewOps) :
                 NewOps[k].kind = "text" /\ NewOps[k].h = 110 /\ NewOps[k].bold
          /\ (i18nText(pub.name, run.lang) # <<>> /\ trim(safeText(pub.url)) # <<>>) =>
               \E k \in 1..Len(NewOps) : NewOps[k].kind = "annot"
  /\ (run.pc \in {"save", "done"} /\ run' # run) =>
       run'.ops = run.ops /\ run'.npages = run.npages /\ run'.y = run.y
  /\ run'.pc \in {"pubEntries", "save", "done"} /\ Len(Publications) = 0 => ~PubTitleDrawn(run')

(* C17: when a run reaches the Publications section it draws the title and  *)
(* then every entry, with its link, if the list is non-empty and             *)
(* y > pageBottom + 80; otherwise it goes to the end and nothing is added to *)
(* the document: no title, entry, annotation or page, and y is unchanged     *)
C17_PublicationsOnlyWithRoom == [][PublicationsStep]_vars

C17_Witness ==
  /\ run.pc = "save"
  /\ Len(Publications) > 0
  /\ run.y <= pageBottom + 80 * Pt
  /\ run.y > pageBottom
  /\ ~PubTitleDrawn(run)
  /\ run.npages = 1

----------------------------------------------------------------------------
(* Claims about two runs *)

BothDone == run.pc = "done" /\ run2.pc = "done"

SameDocument == run.ops = run2.ops /\ run.npages = run2.npages

(* C7 as stated: two runs on the same record, language and files produce the *)
(* same document, whatever the wall clock reads during each                  *)
C7_SameDocument == BothDone => SameDocument

(* C7 amended: two runs on the same record, language and files produce the  *)
(* same document provided isInProgressRange reads the same date for each     *)
(* education entry in both runs; the education headers, and nothing else,    *)
(* depend on the wall clock                                                  *)
C7_SameDocumentWhenSameDates ==
  (BothDone /\ run.reads = run2.reads) => SameDocument

C7_Witness ==
  /\ BothDone
  /\ run.reads = run2.reads
  /\ Len(run.reads) = 2
  /\ run.reads[1] # run.reads[2]
  /\ run.at # run2.at
  /\ SameDocument

(* the cursor positions at which text was drawn on page p, in drawing order, *)
(* in every region or in one region                                         *)
TextYs(r, p, regions) ==
  LET drawn == SelectSeq(r.ops, LAMBDA op : op.kind = "text" /\ op.pg = p /\ op.region \in regions)
  IN [k \in 1..Len(drawn) |-> drawn[k].y]

NonIncreasing(ys) == \A k \in 1..(Len(ys) - 1) : ys[k + 1] <= ys[k]

PageBreak == run'.npages > run.npages

(* C19 as stated: on one page the cursor never goes up from one drawing to *)
(* the next, and a step raises y only when it breaks the page              *)
C19_NonIncreasingWithinPage ==
  [][(Started /\ run' # run) =>
       /\ \A p \in 1..run'.npages : NonIncreasing(TextYs(run', p, {"sidebar", "main"}))
       /\ run'.y > run.y => PageBreak]_vars

(* C19: on one page and in one region the cursor never goes up from one   *)
(* drawing to the next, and a step raises y only when it breaks the page  *)
(* or when it starts the main column                                      *)
C19_NonIncreasingWithinRegion ==
  [][(Started /\ run' # run) =>
       /\ \A p \in 1..run'.npages :
            /\ NonIncreasing(TextYs(run', p, {"sidebar"}))
            /\ NonIncreasing(TextYs(run', p, {"main"}))
       /\ run'.y > run.y => PageBreak \/ run.pc = "main"]_vars

C19_Witness ==
  /\ run.pc = "done"
  /\ run.npages = 2
  /\ run.mainStartPage = 1
  /\ \A p \in 1..2 : Len(TextYs(run, p, {"main"})) > 1
  /\ Len(TextYs(run, 1, {"sidebar"})) > 1
  /\ ~ NonIncreasing(TextYs(run, 1, {"sidebar", "main"}))

(* C20: the page being written to is always the last page created, and *)
(* nothing is placed on a page after something was placed on a later   *)
(* page, whatever the region                                           *)
C20_FinishedPageNotRevisited ==
  Started =>
    /\ run.page = run.npages
    /\ \A k \in 1..(Len(run.ops) - 1) : run.ops[k].pg <= run.ops[k + 1].pg

C20_Witness ==
  /\ run.pc = "done"
  /\ run.npages = 2
  /\ run.mainStartPage = 2
  /\ \E k \in OpsOf("text") : run.ops[k].pg = 1 /\ run.ops[k].region = "sidebar"
  /\ \E k \in OpsOf("text") : run.ops[k].pg = 2 /\ run.ops[k].region = "sidebar"
  /\ \A k \in 1..Len(run.ops) : run.ops[k].region = "main" => run.ops[k].pg = 2

MainOps(r) == SelectSeq(r.ops, LAMBDA op : op.region = "main")

(* C21: the main column starts at the top margin of the first page, however *)
(* much the sidebar has rendered and whether or not it overflowed           *)
C21_MainStartsOnFirstPage ==
  (Started /\ Len(MainOps(run)) > 0) =>
    /\ MainOps(run)[1].pg = 1
    /\ MainOps(run)[1].y = pageHeight - margin

LinkNewOps == SubSeq(fn.out.ops, Len(fn.ops) + 1, Len(fn.out.ops))

LinkLines == wrapText(fn.font, fn.text, mainWidth, 110)

CountOn(ops, kind, p) == Len(SelectSeq(ops, LAMBDA op : op.kind = kind /\ op.pg = p))

(* C22: drawMainWrappedLink draws every line of the wrapped text whether or *)
(* not there is a URL; on every page the annotation list grows by one per   *)
(* line drawn on that page when the URL is non-empty after trimming and is  *)
(* unchanged when it is empty; and what was attached before stays as it was *)
C22_LinkAnnotations ==
  fn.pc = "linked" =>
    /\ IsPrefix(fn.ops, fn.out.ops)
    /\ TextsOf(SelectSeq(LinkNewOps, LAMBDA op : op.kind = "text")) = LinkLines
    /\ \A k \in 1..Len(LinkNewOps) : LinkNewOps[k].kind \in {"text", "annot", "bg"}
    /\ \A p \in 1..fn.out.npages :
         CountOn(LinkNewOps, "annot", p) =
           IF trim(safeText(fn.url)) # <<>> THEN CountOn(LinkNewOps, "text", p) ELSE 0

C22_Witness ==
  /\ fn.pc = "linked"
  /\ Len(LinkLines) = 2
  /\ fn.url = <<" ">> \o UrlShort \o <<" ">>
  /\ fn.npages = 2 /\ fn.out.npages = 3
  /\ CountOn(fn.out.ops, "annot", 2) = 2
  /\ CountOn(fn.out.ops, "annot", 3) = 1

(* C23: every link annotation is placed right after its text line, on the *)
(* page of that line, and its rectangle starts 2 below the line's baseline *)
(* at the line's x, with the line's width and the font size plus 4 as      *)
(* height, also when the page was broken just before the line              *)
C23_AnnotationOnPageOfLine ==
  Started =>
    \A k \in OpsOf("annot") :
      /\ k > 1
      /\ run.ops[k - 1].kind = "text" /\ run.ops[k - 1].region = "main"
      /\ run.ops[k].pg = run.ops[k - 1].pg
      /\ run.ops[k].x = run.ops[k - 1].x
      /\ run.ops[k].y = run.ops[k - 1].y - 2 * Pt
      /\ run.ops[k].w = run.ops[k - 1].w
      /\ run.ops[k].h = run.ops[k - 1].h * 1000 + 4 * Pt

C23_Witness ==
  /\ run.pc = "done"
  /\ \E k \in OpsOf("annot") :
       /\ k > 3
       /\ run.ops[k - 3].kind = "bg"
       /\ run.ops[k - 1].x > mainX
       /\ run.ops[k].pg = run.mainStartPage + 1

PubTitleAt == CHOOSE k \in TitleOps(run) : run.ops[k].text = sectionTitle(run, "pubTitle")

(* the first publication has a title, a date or a publisher to draw *)
FirstPublicationDraws ==
  LET pub == Publications[1]
  IN \/ tokensOf(i18nText(pub.name, run.lang)) # <<>>
     \/ tokensOf(slice(safeText(pub.releaseDate), 0, 7)) # <<>>
     \/ tokensOf(safeText(pub.publisher)) # <<>>

FirstPublicationDone == run.pc = "done" \/ (run.pc = "pubEntries" /\ run.i > 1)

(* C24: when the Publications section is rendered, its title, the divider *)
(* under it and the first line of the first publication are on one page   *)
C24_PublicationsTitleNotOrphan ==
  (Started /\ PubTitleDrawn(run)) =>
    /\ Len(run.ops) > PubTitleAt
    /\ run.ops[PubTitleAt + 1].kind = "line"
    /\ run.ops[PubTitleAt + 1].pg = run.ops[PubTitleAt].pg
    /\ (FirstPublicationDone /\ FirstPublicationDraws) =>
         /\ Len(run.ops) > PubTitleAt + 1
         /\ run.ops[PubTitleAt + 2].kind = "text"
         /\ run.ops[PubTitleAt + 2].pg = run.ops[PubTitleAt].pg

C24_Witness ==
  /\ run.pc = "done"
  /\ PubTitleDrawn(run)
  /\ FirstPublicationDraws
  /\ run.ops[PubTitleAt].y <= pageBottom + 100 * Pt
  /\ run.ops[PubTitleAt + 2].pg = run.ops[PubTitleAt].pg

EvenlySpaced(line, words) == \E n \in 1..Len(line) : line = join(words, Rep(SP, n))

(* C25: with justify enabled the last wrapped line is drawn as it is; every *)
(* other line of one word is drawn as it is, and every other line of two or *)
(* more words keeps its words in order with one and the same number of      *)
(* spaces, at least one, between neighbours                                 *)
C25_JustifyKeepsWords ==
  fn.pc = "justified" =>
    /\ Len(fn.out) = Len(fn.lines)
    /\ \A i \in 1..Len(fn.lines) :
         LET words == tokensOf(fn.lines[i])
         IN IF i = Len(fn.lines) \/ Len(words) <= 1
            THEN fn.out[i] = fn.lines[i]
            ELSE /\ tokensOf(fn.out[i]) = words
                 /\ EvenlySpaced(fn.out[i], words)

C25_Witness ==
  /\ fn.pc = "justified"
  /\ \E i, j \in 1..(Len(fn.lines) - 1) :
       /\ Len(tokensOf(fn.lines[i])) >= 2
       /\ fn.out[i] # fn.lines[i]
       /\ Len(tokensOf(fn.lines[j])) = 1
  /\ fn.out[Len(fn.out)] = fn.lines[Len(fn.lines)]

InputTokens == tokensOf(safeText(fn.text))

(* C26: the lines of wrapText are non-empty and, joined with single spaces, *)
(* are the whitespace-separated tokens of the input joined with single      *)
(* spaces; a wrapped-draw routine given an input without tokens draws       *)
(* nothing, leaves y where it was and adds no page                          *)
C26_WrapKeepsTokens ==
  /\ FnWrapped =>
       /\ \A i \in 1..Len(fn.lines) : fn.lines[i] # <<>>
       /\ join(fn.lines, <<SP>>) = join(InputTokens, <<SP>>)
       /\ InputTokens = <<>> => fn.lines = <<>>
  /\ (fn.pc \in {"drawn", "linked"} /\ InputTokens = <<>>) =>
       /\ fn.out.ops = fn.ops
       /\ fn.out.y = fn.y
       /\ fn.out.npages = fn.npages /\ fn.out.page = fn.page
  /\ (fn.pc \in {"drawn", "linked"} /\ InputTokens # <<>>) =>
       Len(fn.out.ops) > Len(fn.ops)

C26_Witness ==
  /\ fn.pc = "wrapped"
  /\ Len(fn.lines) >= 2
  /\ Len(InputTokens) >= 3
  /\ fn.text[1] = SP
  /\ Len(fn.text) > Len(join(fn.lines, <<SP>>)) + 1

FloorOf(region) == IF region = "sidebar" THEN 20 * Pt ELSE 48 * Pt

(* C27: every text is drawn at a baseline between the floor of its region, *)
(* 20 in the sidebar and 48 in the main column, and the top margin, and    *)
(* every image has its bottom edge at or above the sidebar floor           *)
C27_DrawsAboveFloor ==
  Started =>
    /\ \A k \in OpsOf("text") :
         /\ run.ops[k].y >= FloorOf(run.ops[k].region)
         /\ run.ops[k].y <= pageHeight - margin
    /\ \A k \in OpsOf("image") : run.ops[k].y >= 20 * Pt

C27_Witness ==
  /\ run.mainStartPage > 0
  /\ run.pc \notin {"save", "done"}
  /\ run.y < 48 * Pt
  /\ \E k \in OpsOf("text") :
       /\ run.ops[k].region = "main"
       /\ run.ops[k].pg = run.page
       /\ run.ops[k].y < 48 * Pt + 30 * Pt
  /\ \E k \in OpsOf("image") : run.ops[k].y >= 20 * Pt

LinkTextOps == SelectSeq(LinkNewOps, LAMBDA op : op.kind = "text")

(* C28: every line drawMainWrappedLink draws, measured in the font that *)
(* draws it, is at most maxWidth wide unless it is a single token       *)
C28_DrawnLineWithinMaxWidth ==
  fn.pc = "linked" =>
    \A k \in 1..Len(LinkTextOps) :
      \/ widthOfTextAtSize(usedFont(fn, fn.bold), LinkTextOps[k].text, 110) <= mainWidth
      \/ ~HasSpace(LinkTextOps[k].text)

LongestLoop(r) ==
  Max(Max(Len(clampArray(r.cv.work)), Len(clampArray(r.cv.education))),
      Max(Len(shownProjects(r)), Len(clampArray(r.cv.publications))))

(* a bound on the steps a run still has to take *)
StepsLeft(r) == (Len(PcOrder) - PcRank(r.pc)) * (LongestLoop(r) + 2) + EntriesLeft(r)

(* C29: every step of a run that has not finished lowers a natural number, *)
(* so the run reaches the end; the loop that shortens the last summary     *)
(* line for the ellipsis makes at most one iteration per character of the  *)
(* line; and there are at most 1 plus the number of ensureSpace calls pages *)
C29_ReachesDone ==
  /\ Running(run) =>
       LET left == StepsLeft(Step(run, clock))
       IN left < StepsLeft(run) /\ left >= 0
  /\ Started => run.npages <= 1 + run.ensured
  /\ (run.pc = "roles" /\ Len(WrappedSummary) > maxLines) =>
       ellipsisIterations(run.font, WrappedSummary[maxLines], 85, sidebarTextWidth)
         <= Len(WrappedSummary[maxLines])

C29_Witness ==
  /\ run.pc = "done"
  /\ run.npages = 2
  /\ run.ensured > 2
  /\ Len(WrappedSummary) > maxLines
  /\ ellipsisIterations(run.font, WrappedSummary[maxLines], 85, sidebarTextWidth) > 1

HasDraw(p) ==
  \E k \in 1..Len(run.ops) : run.ops[k].pg = p /\ run.ops[k].kind \in {"text", "image"}

(* C30: every page has a text or an image drawn on it by the time the next *)
(* page is created and by the time the document is finished                *)
C30_NoBlankPage ==
  Started =>
    /\ \A p \in 1..(run.npages - 1) : HasDraw(p)
    /\ run.pc = "done" => HasDraw(run.npages)

----------------------------------------------------------------------------
(* Claims about main *)

ReadFailed == \E l \in Langs : main.files[l] # "ok"

BuildHasFailed == run.pc = "failed" \/ run2.pc = "failed"

(* C13: when a data file cannot be read or a document cannot be built, main *)
(* never gets to the writes and no output file is written; a write is only  *)
(* started once both records have been read and both documents are complete *)
C13_NoWriteAfterFailure ==
  main.pc # "off" =>
    /\ ReadFailed =>
         main.pc \in {"reading", "failed"} /\ main.written = {} /\ run = NoRun /\ run2 = NoRun
    /\ BuildHasFailed => main.pc \in {"rendering", "failed"} /\ main.written = {}
    /\ (main.pc \in {"writing", "done"} \/ main.written # {}) =>
         run.pc = "done" /\ run2.pc = "done" /\ main.read = Langs

C13_Witness ==
  /\ main.pc = "failed"
  /\ main.written = {}
  /\ run.pc = "done"
  /\ run2.pc = "failed"

Layout(r) == [page |-> r.page, npages |-> r.npages, y |-> r.y, ops |-> r.ops]

(* the call made alone: every step taken in turn, each education entry      *)
(* rendered on the date in reads                                            *)
RECURSIVE runAlone(_, _)
runAlone(r, reads) ==
  IF r.pc = "done" THEN r
  ELSE runAlone(Step(r, IF InLoop(r, "education", clampArray(r.cv.education))
                        THEN reads[r.i] ELSE D2019),
                reads)

AsAlone(r, lang) ==
  r.pc = "done" =>
    Layout(r) = Layout(runAlone(NewRun(main.cvs[lang], lang, DefaultEnv), r.reads))

BothSettled == main.pc = "rendering" /\ ~TaskRunning(run) /\ ~TaskRunning(run2)

(* C14: whatever turns the es and en calls take, when both have ended the   *)
(* pages, cursor, drawn items and annotations of each completed call are    *)
(* those it ends with when it runs alone and reads the same dates           *)
C14_TaskAsAlone == BothSettled => AsAlone(run, "es") /\ AsAlone(run2, "en")

C14_Witness ==
  /\ BothSettled
  /\ run.pc = "done" /\ run2.pc = "done"
  /\ run.reads = <<D2019, D2026>>
  /\ run2.reads = <<D2022, D2022>>
  /\ run.ops # run2.ops
  /\ AsAlone(run, "es") /\ AsAlone(run2, "en")

====
